---- MODULE Spec2Model ----
(***************************************************************************)
(* Grid reconstruction and cell quantization of proper_pixel_art:          *)
(*   mesh.py    cluster_lines, detect_grid_lines, get_pixel_width,         *)
(*              homogenize_lines, compute_mesh                             *)
(*   colors.py  get_cell_color, downsample                                 *)
(* and the scale search of gen_pixel_art:                                  *)
(*   utils.py              compute_mse                                     *)
(*   resolution_finder.py  estimate_scale_factor_with_offset               *)
(*                                                                         *)
(* Numbers.  Line coordinates are integers.  A pixel width is the median   *)
(* of integer gaps, so it is an integer or a half-integer; it is kept as    *)
(* the record [num, den] with den = 2 (den = 0 is numpy's nan).  The 20th  *)
(* and 80th percentiles are kept multiplied by 5.  Quotients are computed  *)
(* exactly; the float64 rounding of the source is not modelled.            *)
(***************************************************************************)
EXTENDS Integers, Sequences, FiniteSets, TLC

VARIABLES
    pc,             \* position of the run being modelled
    cl_lines,       \* cluster_lines: the caller's list
    cl_threshold,   \* cluster_lines: threshold
    cl_out,         \* cluster_lines(cl_lines, cl_threshold)
    cl_again,       \* cluster_lines(cl_out, cl_threshold)
    hl_lines,       \* homogenize_lines: the caller's list
    hl_width,       \* homogenize_lines: pixel_width
    hl_out,         \* homogenize_lines(hl_lines, hl_width)
    width,          \* compute_mesh: edges.shape[1]
    height,         \* compute_mesh: edges.shape[0]
    hough,          \* compute_mesh: the segments of cv2.HoughLinesP, <<>> for None
    lines_x,        \* compute_mesh: lines_x of detect_grid_lines
    lines_y,        \* compute_mesh: lines_y of detect_grid_lines
    pixel_width,    \* compute_mesh: get_pixel_width(lines_x, lines_y)
    mesh_x,         \* compute_mesh: homogenize_lines(lines_x, pixel_width)
    mesh_y,         \* compute_mesh: homogenize_lines(lines_y, pixel_width)
    rgb,            \* downsample: np.array(image.convert("RGB")), rows of pixels
    mesh,           \* downsample: <<lines_x, lines_y>>
    result,         \* downsample: the image returned, or Raised
    gw_x,           \* get_pixel_width: lines_x
    gw_y,           \* get_pixel_width: lines_y
    gw_out,         \* get_pixel_width(gw_x, gw_y)
    gw_more,        \* get_pixel_width: <<lines_x, lines_y>> with one more line
    gw_again,       \* get_pixel_width(gw_more[1], gw_more[2])
    ms_full,        \* compute_mse: image1
    ms_test,        \* compute_mse: image2
    ms_box,         \* compute_mse: region_box, <<>> for None
    ms_out,         \* compute_mse(ms_full, ms_test, ms_box)
    sr_image,       \* estimate_scale_factor_with_offset: image
    sr_max_scale,   \* estimate_scale_factor_with_offset: max_scale
    sr_max_offset,  \* estimate_scale_factor_with_offset: max_offset
    sr_scale,       \* the search loop: scale
    sr_oy,          \* the search loop: offset_y
    sr_ox,          \* the search loop: offset_x
    sr_best,        \* best_scale, best_offset, best_mse_val, best_img
    sr_seen,        \* the candidates evaluated so far, with their mse_val
    gen_width,      \* generate_pixel_art: width of img
    gen_height,     \* generate_pixel_art: height of img
    gen_first,      \* the mesh of upsampled_img, <<>> before it is computed
    gen_mesh_of,    \* the image img_mesh was computed from
    gen_palette_of, \* the image paletted_img was computed from
    gen_mesh_calls, \* calls of mesh.compute_mesh so far
    gen_down_calls, \* calls of colors.downsample so far
    hp_heap,        \* the list objects of the interpreter, by identity
    hp_raw,         \* compute_mesh's caller: identities of the raw line lists
    hp_lines,       \* compute_mesh: identities of lines_x and lines_y
    hp_width,       \* compute_mesh: pixel_width
    hp_mesh,        \* compute_mesh: identities of mesh_x and mesh_y
    hp_before,      \* the contents of the lists when they were handed over
    transparent_background  \* downsample: transparent_background

vars == <<pc, cl_lines, cl_threshold, cl_out, cl_again, hl_lines, hl_width, hl_out,
          width, height, hough, lines_x, lines_y, pixel_width, mesh_x, mesh_y,
          rgb, mesh, result, gw_x, gw_y, gw_out, gw_more, gw_again,
          ms_full, ms_test, ms_box, ms_out,
          sr_image, sr_max_scale, sr_max_offset, sr_scale, sr_oy, sr_ox, sr_best, sr_seen,
          gen_width, gen_height, gen_first, gen_mesh_of, gen_palette_of,
          gen_mesh_calls, gen_down_calls,
          hp_heap, hp_raw, hp_lines, hp_width, hp_mesh, hp_before,
          transparent_background>>

clusterVars == <<cl_lines, cl_threshold, cl_out, cl_again>>
homogVars == <<hl_lines, hl_width, hl_out>>
meshVars == <<width, height, hough, lines_x, lines_y, pixel_width, mesh_x, mesh_y>>
downVars == <<rgb, mesh, result>>
widthVars == <<gw_x, gw_y, gw_out, gw_more, gw_again>>
mseVars == <<ms_full, ms_test, ms_box, ms_out>>
searchVars == <<sr_image, sr_max_scale, sr_max_offset, sr_scale, sr_oy, sr_ox, sr_best, sr_seen>>
finderVars == <<mseVars, searchVars>>
genVars == <<gen_width, gen_height, gen_first, gen_mesh_of, gen_palette_of,
             gen_mesh_calls, gen_down_calls>>
heapVars == <<hp_heap, hp_raw, hp_lines, hp_width, hp_mesh, hp_before>>
alphaVars == <<transparent_background>>

----------------------------------------------------------------------------
(* Bounds of the model *)

MaxLen == 3         \* longest line list handed to a function on its own
MaxCoord == 6       \* largest coordinate in such a list
NegCoord == 2       \* coordinates go down to -NegCoord (cluster_lines only)
MaxThreshold == 3   \* largest threshold tried for cluster_lines
MaxWidth2 == 8      \* largest pixel width tried, in half pixels
MaxDim == 11        \* largest width and height of an edge map
MaxSegments == 1    \* most segments the line detector reports
SegLen == 2         \* length of a reported segment
ImgW == 2           \* width of the image handed to downsample
ImgH == 2           \* height of the image handed to downsample
MaxGap == 3         \* largest gap between adjacent lines handed to get_pixel_width
MaxGaps == 2        \* most gaps per axis handed to get_pixel_width
MaxCells == 3       \* most cells per axis of a checkerboard handed to compute_mesh
CellSize == 10      \* side of a checkerboard cell, in pixels
MseDim == 2         \* largest width of an image handed to compute_mse
BaseW == 3          \* most pixels per row of the image that the search's input enlarges
MaxScale == 4       \* largest max_scale handed to the search

----------------------------------------------------------------------------
(* Default parameters of the source *)

ClusterThreshold == 4   \* cluster_lines(lines, threshold=4)
TrimDen == 5            \* trim_outlier_fraction = 0.2 = 1/TrimDen
CropBorder == 2         \* utils.crop_border(img, num_pixels=2)
FirstScale == 3         \* for scale in range(3, max_scale + 1)
DefaultMaxOffset == 3   \* max_offset: int = 3

----------------------------------------------------------------------------
(* Arithmetic helpers *)

Abs(a) == IF a < 0 THEN 0 - a ELSE a

\* int(x) of the float a/2: truncation toward zero
TruncHalf(a) == IF a >= 0 THEN a \div 2 ELSE 0 - ((0 - a) \div 2)

\* floor(a/b) for a >= 0, b > 0: int() of a non-negative float
FloorDiv(a, b) == a \div b

\* round-half-to-even of a/b, b > 0 (np.round, and Python's round)
RoundHalfEvenNonNeg(a, b) ==
    LET q == a \div b
        r == a % b
    IN  IF 2 * r < b THEN q
        ELSE IF 2 * r > b THEN q + 1
        ELSE IF q % 2 = 0 THEN q ELSE q + 1

RoundHalfEven(a, b) ==
    IF a >= 0 THEN RoundHalfEvenNonNeg(a, b) ELSE 0 - RoundHalfEvenNonNeg(0 - a, b)

----------------------------------------------------------------------------
(* Sequences *)

Last(s) == s[Len(s)]

\* all sequences over S of length lo..hi
SeqsUpTo(S, lo, hi) == UNION {[1..n -> S] : n \in lo..hi}

RECURSIVE InsertSorted(_, _)
InsertSorted(s, x) ==
    IF s = <<>> THEN <<x>>
    ELSE IF x < Head(s) THEN <<x>> \o s
    ELSE <<Head(s)>> \o InsertSorted(Tail(s), x)

\* Python's sorted(): ascending, stable
RECURSIVE Sorted(_)
Sorted(s) == IF s = <<>> THEN <<>> ELSE InsertSorted(Sorted(SubSeq(s, 1, Len(s) - 1)), Last(s))

\* the differences taken backward: s[i] - s[i + 1]
DiffBackward(s) == [i \in 1..(IF Len(s) = 0 THEN 0 ELSE Len(s) - 1) |-> s[i] - s[i + 1]]

\* np.diff
Diff(s) == [i \in 1..(IF Len(s) = 0 THEN 0 ELSE Len(s) - 1) |-> s[i + 1] - s[i]]

StrictlyIncreasing(s) == \A i \in 1..(Len(s) - 1) : s[i] < s[i + 1]

RECURSIVE Flatten(_)
Flatten(ss) == IF ss = <<>> THEN <<>> ELSE Head(ss) \o Flatten(Tail(ss))

\* twice np.sum of a list
RECURSIVE Sum2(_)
Sum2(s) == IF s = <<>> THEN 0 ELSE 2 * Head(s) + Sum2(Tail(s))

\* twice np.median of a non-empty list
Median2(s) ==
    LET t == Sorted(s)
        n == Len(t)
    IN  IF n % 2 = 1 THEN 2 * t[(n + 1) \div 2] ELSE t[n \div 2] + t[n \div 2 + 1]

----------------------------------------------------------------------------
(* mesh.py: cluster_lines *)

\* the loop of lines 21-26 over the sorted list, from element i on
RECURSIVE GroupFrom(_, _, _, _)
GroupFrom(s, i, clusters, threshold) ==
    IF i > Len(s) THEN clusters
    ELSE LET p == s[i]
             cur == Last(clusters)
         IN  IF Abs(p - Last(cur)) <= threshold
             THEN GroupFrom(s, i + 1,
                            [clusters EXCEPT ![Len(clusters)] = Append(cur, p)], threshold)
             ELSE GroupFrom(s, i + 1, Append(clusters, <<p>>), threshold)

\* the loop with "<" for "<=": lines exactly threshold apart are not merged
RECURSIVE GroupFromStrict(_, _, _, _)
GroupFromStrict(s, i, clusters, threshold) ==
    IF i > Len(s) THEN clusters
    ELSE LET p == s[i]
             cur == Last(clusters)
         IN  IF Abs(p - Last(cur)) < threshold
             THEN GroupFromStrict(s, i + 1,
                            [clusters EXCEPT ![Len(clusters)] = Append(cur, p)], threshold)
             ELSE GroupFromStrict(s, i + 1, Append(clusters, <<p>>), threshold)

ClustersOfStrict(lines, threshold) ==
    LET s == Sorted(lines) IN GroupFromStrict(s, 2, << <<s[1]>> >>, threshold)

\* the loop measuring the distance to the cluster's first element instead of its last
RECURSIVE GroupFromFirst(_, _, _, _)
GroupFromFirst(s, i, clusters, threshold) ==
    IF i > Len(s) THEN clusters
    ELSE LET p == s[i]
             cur == Last(clusters)
         IN  IF Abs(p - Head(cur)) <= threshold
             THEN GroupFromFirst(s, i + 1,
                            [clusters EXCEPT ![Len(clusters)] = Append(cur, p)], threshold)
             ELSE GroupFromFirst(s, i + 1, Append(clusters, <<p>>), threshold)

ClustersOfFirst(lines, threshold) ==
    LET s == Sorted(lines) IN GroupFromFirst(s, 2, << <<s[1]>> >>, threshold)

ClustersOf(lines, threshold) ==
    LET s == Sorted(lines) IN GroupFrom(s, 2, << <<s[1]>> >>, threshold)

\* floor for int(): medians below zero go down instead of toward zero
ClusterMedianFloor(cluster) == Median2(cluster) \div 2

\* int(np.median(cluster))
ClusterMedian(cluster) == TruncHalf(Median2(cluster))

cluster_lines(lines, threshold) ==
    IF lines = <<>> THEN <<>>
    ELSE LET clusters == ClustersOf(lines, threshold)
         IN  [k \in 1..Len(clusters) |-> ClusterMedian(clusters[k])]

----------------------------------------------------------------------------
(* mesh.py: homogenize_lines *)

NoWidth == [num |-> 0, den |-> 0]       \* nan
IsNan(w) == w.den = 0

\* int(np.round(section_width / pixel_width)), pixel_width > 0
NumPixels(section_width, w) == RoundHalfEven(section_width * w.den, w.num)

\* range(num_pixels + 1) for range(num_pixels): the section repeats the next line
SectionLinesInclusive(line_start, section_width, num_pixels) ==
    IF num_pixels <= 0 THEN <<>>
    ELSE [k \in 1..(num_pixels + 1) |->
            line_start + FloorDiv((k - 1) * section_width, num_pixels)]

\* range(1, num_pixels) for range(num_pixels): the section loses its first line
SectionLinesSkipFirst(line_start, section_width, num_pixels) ==
    IF num_pixels <= 0 THEN <<>>
    ELSE [k \in 1..(num_pixels - 1) |->
            line_start + FloorDiv(k * section_width, num_pixels)]

\* the fraction bits of a double: section_width / num_pixels is a float
MantissaBits == 52

\* the largest a with 2^a <= p / q, for p, q > 0
RECURSIVE Log2Floor(_, _)
Log2Floor(p, q) ==
    IF p >= 2 * q THEN Log2Floor(p, 2 * q) + 1
    ELSE IF p < q THEN Log2Floor(2 * p, q) - 1
    ELSE 0

RECURSIVE Pow2(_)
Pow2(k) == IF k <= 0 THEN 1 ELSE 2 * Pow2(k - 1)

\* 2^t mod n
RECURSIVE Pow2Mod(_, _)
Pow2Mod(t, n) == IF t <= 0 THEN 1 % n ELSE (2 * Pow2Mod(t - 1, n)) % n

\* int(n * section_pixel_width) with section_pixel_width = section_width /
\* num_pixels rounded to a double and the product rounded again, for
\* section_width > 0 and 0 <= n < num_pixels.  The quotient keeps
\* MantissaBits fraction bits below its leading bit, so it misses
\* section_width / num_pixels by r / num_pixels units of its last place
\* (rounded down) or by less than half a unit upward.  When the exact product
\* is not an integer the truncation is unaffected; when it is an integer K
\* and the quotient was rounded down, the product lies below K and int()
\* gives K - 1 unless the product itself rounds back to K.
SectionOffset(section_width, num_pixels, n) ==
    LET exact == FloorDiv(n * section_width, num_pixels)
        a == Log2Floor(section_width, num_pixels)
        r == (section_width * Pow2Mod(MantissaBits - a, num_pixels)) % num_pixels
        e == Log2Floor(exact, 1)
        half == IF exact = Pow2(e) THEN e - a ELSE e - a + 1
    IN  IF n = 0 \/ (n * section_width) % num_pixels # 0 THEN exact
        ELSE IF r = 0 \/ 2 * r > num_pixels THEN exact
        ELSE IF 4 * n * r <= num_pixels * Pow2(half) THEN exact
        ELSE exact - 1

\* [line_start + int(n * section_pixel_width) for n in range(num_pixels)]
SectionLines(line_start, section_width, num_pixels) ==
    IF num_pixels <= 0 THEN <<>>
    ELSE [k \in 1..num_pixels |->
            line_start + SectionOffset(section_width, num_pixels, k - 1)]

\* the result of a call: ok = FALSE when the call raises
Raised == [ok |-> FALSE, lines |-> <<>>]
Returned(lines) == [ok |-> TRUE, lines |-> lines]

homogenize_lines(lines, w) ==
    IF lines = <<>> THEN Raised                                  \* lines[-1]
    ELSE IF Len(lines) > 1 /\ (IsNan(w) \/ w.num = 0) THEN Raised  \* int(nan), int(inf)
    ELSE LET widths == Diff(lines)
             sections == [i \in 1..Len(widths) |->
                            SectionLines(lines[i], widths[i], NumPixels(widths[i], w))]
         IN  Returned(Append(Flatten(sections), Last(lines)))

----------------------------------------------------------------------------
(* colors.py: get_cell_color and downsample.  rgb[y + 1][x + 1] is the     *)
(* pixel of row y and column x; a colour is an RGB triple.                 *)

Min(a, b) == IF a < b THEN a ELSE b

\* rgb[y0:y1 + 1, x0:x1 + 1]: the slices taken inclusive of their end line
CellInclusive(a, x0, x1, y0, y1) ==
    LET ys == y0..(Min(y1 + 1, Len(a)) - 1)
        xs == x0..(Min(x1 + 1, Len(a[1])) - 1)
        rows == [r \in 1..Cardinality(ys) |->
                    [c \in 1..Cardinality(xs) |-> a[y0 + r][x0 + c]]]
    IN  IF xs = {} THEN <<>> ELSE Flatten(rows)

\* rgb[y0:y1, x0:x1].reshape(-1, 3): the block's pixels, row by row
\* (0 <= y0, x0; a slice is cut at the array's edge)
Cell(a, x0, x1, y0, y1) ==
    LET ys == y0..(Min(y1, Len(a)) - 1)
        xs == x0..(Min(x1, Len(a[1])) - 1)
        rows == [r \in 1..Cardinality(ys) |->
                    [c \in 1..Cardinality(xs) |-> a[y0 + r][x0 + c]]]
    IN  IF xs = {} THEN <<>> ELSE Flatten(rows)

Count(flat, c) == Cardinality({k \in 1..Len(flat) : flat[k] = c})

FirstIndex(flat, c) == CHOOSE k \in 1..Len(flat) :
                            flat[k] = c /\ \A m \in 1..(k - 1) : flat[m] # c

\* the least frequent colour of the block
LeastCommon(flat) ==
    CHOOSE c \in {flat[k] : k \in 1..Len(flat)} :
        \A d \in {flat[k] : k \in 1..Len(flat)} \ {c} :
            \/ Count(flat, c) < Count(flat, d)
            \/ Count(flat, c) = Count(flat, d) /\ FirstIndex(flat, c) < FirstIndex(flat, d)

\* Counter(flat).most_common(1)[0][0] of a non-empty block: the largest count,
\* and among equal counts the colour met first
get_cell_color(flat) ==
    CHOOSE c \in {flat[k] : k \in 1..Len(flat)} :
        \A d \in {flat[k] : k \in 1..Len(flat)} \ {c} :
            \/ Count(flat, c) > Count(flat, d)
            \/ Count(flat, c) = Count(flat, d) /\ FirstIndex(flat, c) < FirstIndex(flat, d)

\* out[j, i] filled from rgb[x0:x1, y0:y1]: the axes of the slice exchanged
OutCellsSwapped(a, lx, ly) ==
    [j \in 1..(Len(ly) - 1) |->
        [i \in 1..(Len(lx) - 1) |-> Cell(a, ly[j], ly[j + 1], lx[i], lx[i + 1])]]

\* the blocks of the loop of lines 58-62: OutCells[j][i] is the block of out[j, i]
OutCells(a, lx, ly) ==
    [j \in 1..(Len(ly) - 1) |->
        [i \in 1..(Len(lx) - 1) |-> Cell(a, lx[i], lx[i + 1], ly[j], ly[j + 1])]]

\* Image.fromarray(out, mode="RGB"): px[<<x, y>>] is the pixel of column x, row y
FromArray(out) ==
    LET h == Len(out)
        w == Len(out[1])
    IN  [ok |-> TRUE, width |-> w, height |-> h,
         px |-> [p \in (0..(w - 1)) \X (0..(h - 1)) |-> out[p[2] + 1][p[1] + 1]]]

NoImage == [ok |-> FALSE, width |-> 0, height |-> 0, px |-> <<>>]

\* downsample(image, mesh) with at least two lines on each axis and
\* transparent_background = False; an empty block makes most_common(1)[0] raise
downsample(a, lx, ly) ==
    LET cells == OutCells(a, lx, ly)
    IN  IF \E j \in 1..Len(cells) : \E i \in 1..Len(cells[j]) : cells[j][i] = <<>>
        THEN NoImage
        ELSE FromArray([j \in 1..Len(cells) |->
                          [i \in 1..Len(cells[j]) |-> get_cell_color(cells[j][i])]])

----------------------------------------------------------------------------
(* gen_pixel_art: utils.compute_mse and the scale/offset search of         *)
(* resolution_finder.py.  An image has one 8-bit channel; img[y + 1][x + 1] *)
(* is the pixel of column x and row y.  A box is <<left, top, right,       *)
(* bottom>>.  A mean squared error is kept as the exact quotient num/den   *)
(* (the float32 rounding of np.mean is not modelled); den = 0 is inf.      *)

ImgHeight(img) == Len(img)
ImgWidth(img) == IF img = <<>> THEN 0 ELSE Len(img[1])

\* np.asarray(img).shape
Shape(img) == <<ImgHeight(img), ImgWidth(img)>>

\* Image.new(mode, (w, h)): every pixel 0
NewImage(w, h) == [r \in 1..h |-> [c \in 1..w |-> 0]]

\* a pixel read by Image.crop: 0 outside the image
PixelAt(img, x, y) ==
    IF x >= 0 /\ x < ImgWidth(img) /\ y >= 0 /\ y < ImgHeight(img)
    THEN img[y + 1][x + 1] ELSE 0

\* img.crop(box), right > left and bottom > top
Crop(img, box) ==
    [r \in 1..(box[4] - box[2]) |->
        [c \in 1..(box[3] - box[1]) |-> PixelAt(img, box[1] + c - 1, box[2] + r - 1)]]

RECURSIVE SumSeq(_)
SumSeq(q) == IF q = <<>> THEN 0 ELSE Head(q) + SumSeq(Tail(q))

\* np.sum((a - b) ** 2) of two arrays of one shape
SumSquares(a, b) ==
    SumSeq(Flatten([r \in 1..Len(a) |->
                      [c \in 1..Len(a[r]) |-> (a[r][c] - b[r][c]) * (a[r][c] - b[r][c])]]))

MseRaised == [ok |-> FALSE, num |-> 0, den |-> 0]
Inf == [ok |-> TRUE, num |-> 1, den |-> 0]          \* float('inf')

\* a > b: the comparison of line 141 turned around
MseMore(a, b) == a.num * b.den > b.num * a.den

\* a <= b: a later candidate that is as good replaces the best one
MseLessOrEqual(a, b) == a.num * b.den <= b.num * a.den

\* a < b for two mean squared errors
MseLess(a, b) == a.num * b.den < b.num * a.den

\* only image1 is cropped to the box
compute_mseCropFirst(image1, image2, region_box) ==
    LET arr_full == IF region_box = <<>> THEN image1 ELSE Crop(image1, region_box)
        arr_test == image2
    IN  IF Shape(arr_full) # Shape(arr_test) THEN MseRaised
        ELSE [ok |-> TRUE, num |-> SumSquares(arr_full, arr_test),
              den |-> ImgHeight(arr_full) * ImgWidth(arr_full)]

\* utils.compute_mse(image1, image2, region_box); region_box = <<>> is None
compute_mse(image1, image2, region_box) ==
    LET arr_full == IF region_box = <<>> THEN image1 ELSE Crop(image1, region_box)
        arr_test == IF region_box = <<>> THEN image2 ELSE Crop(image2, region_box)
    IN  IF Shape(arr_full) # Shape(arr_test) THEN MseRaised
        ELSE [ok |-> TRUE, num |-> SumSquares(arr_full, arr_test),
              den |-> ImgHeight(arr_full) * ImgWidth(arr_full)]

\* region.resize((w / k, h / k), BOX) of a region whose sides are multiples
\* of k: every pixel is the mean of a k x k block, rounded to the nearest
\* integer (Pillow rounds once per pass; the model rounds once)
BoxDown(region, k) ==
    [j \in 1..(ImgHeight(region) \div k) |->
        [i \in 1..(ImgWidth(region) \div k) |->
            LET block == [r \in 1..k |-> [c \in 1..k |->
                              region[(j - 1) * k + r][(i - 1) * k + c]]]
            IN  (2 * SumSeq(Flatten(block)) + k * k) \div (2 * k * k)]]

\* the source pixel taken one place too far: x / k for (x - 1) / k
NearestUpShifted(down, k) ==
    [y \in 1..(ImgHeight(down) * k) |->
        [x \in 1..(ImgWidth(down) * k) |->
            down[Min(y \div k + 1, ImgHeight(down))][Min(x \div k + 1, ImgWidth(down))]]]

\* down.resize((w * k, h * k), NEAREST)
NearestUp(down, k) ==
    [y \in 1..(ImgHeight(down) * k) |->
        [x \in 1..(ImgWidth(down) * k) |-> down[(y - 1) \div k + 1][(x - 1) \div k + 1]]]

\* base.paste(img, box=(left, top)): the part of img inside base is copied
Paste(base, img, left, top) ==
    [r \in 1..ImgHeight(base) |->
        [c \in 1..ImgWidth(base) |->
            IF /\ c - 1 >= left /\ c - 1 < left + ImgWidth(img)
               /\ r - 1 >= top /\ r - 1 < top + ImgHeight(img)
            THEN img[r - top][c - left]
            ELSE base[r][c]]]

\* lines 105-115: the region of a candidate
RegionBox(w, h, scale, offset_x, offset_y) ==
    LET region_width == ((w - offset_x) \div scale) * scale
        region_height == ((h - offset_y) \div scale) * scale
    IN  <<offset_x, offset_y, offset_x + region_width, offset_y + region_height>>

\* lines 107-108 and 124-125: the candidate is skipped
Skipped(w, h, scale, offset_x, offset_y) ==
    LET box == RegionBox(w, h, scale, offset_x, offset_y)
    IN  box[3] - box[1] <= 0 \/ box[4] - box[2] <= 0

\* lines 118-126: downscaled
Downscaled(image, scale, box) == BoxDown(Crop(image, box), scale)

\* lines 129-138: mse_val of a candidate
CandidateMse(image, scale, box) ==
    LET upscaled == NearestUp(Downscaled(image, scale, box), scale)
        test_image == Paste(NewImage(ImgWidth(image), ImgHeight(image)),
                            upscaled, box[1], box[2])
    IN  compute_mse(image, test_image, box)

----------------------------------------------------------------------------
(* The parts of the state a run does not use stay at these values *)

IdleCluster ==
    /\ cl_lines = <<>>
    /\ cl_threshold = 0
    /\ cl_out = <<>>
    /\ cl_again = <<>>

IdleHomog ==
    /\ hl_lines = <<>>
    /\ hl_width = NoWidth
    /\ hl_out = Returned(<<>>)

IdleDown ==
    /\ rgb = <<>>
    /\ mesh = <<>>
    /\ result = NoImage

IdleWidth ==
    /\ gw_x = <<>>
    /\ gw_y = <<>>
    /\ gw_out = [ok |-> TRUE, w |-> NoWidth]
    /\ gw_more = <<>>
    /\ gw_again = [ok |-> TRUE, w |-> NoWidth]

IdleMse ==
    /\ ms_full = <<>>
    /\ ms_test = <<>>
    /\ ms_box = <<>>
    /\ ms_out = MseRaised

\* lines 89-92: nothing found yet
NoBest == [scale |-> 1, offset |-> <<0, 0>>, mse |-> Inf, img |-> <<>>]

IdleSearch ==
    /\ sr_image = <<>>
    /\ sr_max_scale = 0
    /\ sr_max_offset = 0
    /\ sr_scale = 0
    /\ sr_oy = 0
    /\ sr_ox = 0
    /\ sr_best = NoBest
    /\ sr_seen = <<>>

IdleGen ==
    /\ gen_width = 0
    /\ gen_height = 0
    /\ gen_first = <<>>
    /\ gen_mesh_of = "none"
    /\ gen_palette_of = "none"
    /\ gen_mesh_calls = 0
    /\ gen_down_calls = 0

IdleHeap ==
    /\ hp_heap = <<>>
    /\ hp_raw = <<>>
    /\ hp_lines = <<>>
    /\ hp_width = NoWidth
    /\ hp_mesh = <<>>
    /\ hp_before = [raw |-> <<>>, lines |-> <<>>]

IdleAlpha == transparent_background = FALSE

IdleMesh ==
    /\ width = 0
    /\ height = 0
    /\ hough = <<>>
    /\ lines_x = <<>>
    /\ lines_y = <<>>
    /\ pixel_width = NoWidth
    /\ mesh_x = Returned(<<>>)
    /\ mesh_y = Returned(<<>>)

----------------------------------------------------------------------------
(* mesh.py: detect_grid_lines.  A segment is <<x1, y1, x2, y2>>. *)

\* abs(arctan2(dy, dx)) > deg2rad(90 - 15): tan 75 = 2 + sqrt 3
NearVertical(dx, dy) ==
    /\ <<dx, dy>> # <<0, 0>>
    /\ \/ dx <= 0
       \/ /\ Abs(dy) > 2 * dx
          /\ (Abs(dy) - 2 * dx) * (Abs(dy) - 2 * dx) > 3 * dx * dx

\* abs(arctan2(dy, dx)) < deg2rad(15): tan 15 = 2 - sqrt 3
NearHorizontal(dx, dy) ==
    \/ <<dx, dy>> = <<0, 0>>
    \/ /\ dx > 0
       /\ Abs(dy) < 2 * dx
       /\ (2 * dx - Abs(dy)) * (2 * dx - Abs(dy)) > 3 * dx * dx

\* round((a + b) / 2)
Midpoint(a, b) == RoundHalfEven(a + b, 2)

\* the loop of lines 59-66 from segment i on; acc = <<lines_x, lines_y>>
RECURSIVE CollectFrom(_, _, _)
CollectFrom(segs, i, acc) ==
    IF i > Len(segs) THEN acc
    ELSE LET seg == segs[i]
             dx == seg[3] - seg[1]
             dy == seg[4] - seg[2]
         IN  IF NearVertical(dx, dy)
             THEN CollectFrom(segs, i + 1, <<Append(acc[1], Midpoint(seg[1], seg[3])), acc[2]>>)
             ELSE IF NearHorizontal(dx, dy)
             THEN CollectFrom(segs, i + 1, <<acc[1], Append(acc[2], Midpoint(seg[2], seg[4]))>>)
             ELSE CollectFrom(segs, i + 1, acc)

\* <<lines_x, lines_y>>; segs = <<>> is hough_lines None
detect_grid_lines(w, h, segs) ==
    LET seeds == << <<0, w - 1>>, <<0, h - 1>> >>
    IN  IF segs = <<>> THEN seeds
        ELSE LET raw == CollectFrom(segs, 1, seeds)
             IN  <<cluster_lines(raw[1], ClusterThreshold),
                   cluster_lines(raw[2], ClusterThreshold)>>

----------------------------------------------------------------------------
(* mesh.py: get_pixel_width *)

\* TrimDen times np.percentile(gaps, 100 * k / TrimDen), linear interpolation
Percentile5(gaps, k) ==
    LET t == Sorted(gaps)
        pos == k * (Len(t) - 1)
        i == pos \div TrimDen
        f == pos % TrimDen
    IN  IF f = 0 THEN TrimDen * t[i + 1]
        ELSE TrimDen * t[i + 1] + f * (t[i + 2] - t[i + 1])

\* the band without its bounds: (gaps > low) & (gaps < hi)
MiddleStrict(gaps) ==
    LET low == Percentile5(gaps, 1)
        hi == Percentile5(gaps, TrimDen - 1)
    IN  SelectSeq(gaps, LAMBDA g : TrimDen * g > low /\ TrimDen * g < hi)

\* gaps[(gaps >= low) & (gaps <= hi)]
Middle(gaps) ==
    LET low == Percentile5(gaps, 1)
        hi == Percentile5(gaps, TrimDen - 1)
    IN  SelectSeq(gaps, LAMBDA g : TrimDen * g >= low /\ TrimDen * g <= hi)

\* the outcomes of get_pixel_width: a width, or Raised.  With no gap at all
\* np.percentile of the empty array raises or gives nan, by numpy version.
WidthOutcomes(lx, ly) ==
    LET gaps == Diff(lx) \o Diff(ly)
    IN  IF gaps = <<>> THEN {[ok |-> FALSE, w |-> NoWidth], [ok |-> TRUE, w |-> NoWidth]}
        ELSE LET middle == Middle(gaps)
                 kept == IF middle = <<>> THEN gaps ELSE middle
             IN  {[ok |-> TRUE, w |-> [num |-> Median2(kept), den |-> 2]]}

----------------------------------------------------------------------------
(* mesh.py: compute_mesh from line 156 on.  The edge map and the segments  *)
(* cv2.HoughLinesP reports on it are the input.                            *)

Dims == 1..MaxDim

\* segments the detector may report on a w x h edge map: a vertical one at
\* every x, a horizontal one at every y, a slanted near-vertical one at every
\* x and one diagonal
Segments(w, h) ==
    {<<x, 0, x, SegLen>> : x \in {c \in 0..(w - 1) : h > SegLen}}
    \cup {<<0, y, SegLen, y>> : y \in {c \in 0..(h - 1) : w > SegLen}}
    \cup {<<x, 0, x + 1, 2 * SegLen>> : x \in {c \in 0..(w - 2) : h > 2 * SegLen}}
    \cup {<<0, 0, SegLen, SegLen>> : x \in {c \in {0} : h > SegLen /\ w > SegLen}}

InitMesh ==
    /\ pc = "mesh_start"
    /\ width \in Dims
    /\ height \in Dims
    /\ hough = <<>>
    /\ lines_x = <<>>
    /\ lines_y = <<>>
    /\ pixel_width = NoWidth
    /\ mesh_x = Returned(<<>>)
    /\ mesh_y = Returned(<<>>)
    /\ IdleCluster
    /\ IdleHomog
    /\ IdleDown
    /\ IdleWidth
    /\ IdleMse
    /\ IdleSearch
    /\ IdleGen
    /\ IdleHeap
    /\ IdleAlpha

\* cv2.HoughLinesP finds one more segment (line 45)
ReportSegment ==
    /\ pc = "mesh_start"
    /\ Len(hough) < MaxSegments
    /\ \E seg \in Segments(width, height) : hough' = Append(hough, seg)
    /\ UNCHANGED <<genVars, heapVars, alphaVars, pc, width, height, lines_x, lines_y, pixel_width, mesh_x, mesh_y,
                   clusterVars, homogVars, downVars,
                   widthVars, finderVars>>

\* lines_x, lines_y = detect_grid_lines(closed_edges) (line 157)
DetectGridLines ==
    /\ pc = "mesh_start"
    /\ LET found == detect_grid_lines(width, height, hough)
       IN  /\ lines_x' = found[1]
           /\ lines_y' = found[2]
    /\ pc' = "detected"
    /\ UNCHANGED <<genVars, heapVars, alphaVars, width, height, hough, pixel_width, mesh_x, mesh_y,
                   clusterVars, homogVars, downVars,
                   widthVars, finderVars>>

\* pixel_width = get_pixel_width(lines_x, lines_y) (line 160)
GetPixelWidth ==
    /\ pc = "detected"
    /\ \E r \in WidthOutcomes(lines_x, lines_y) :
          /\ pixel_width' = r.w
          /\ pc' = IF r.ok THEN "measured" ELSE "mesh_raised"
    /\ UNCHANGED <<genVars, heapVars, alphaVars, width, height, hough, lines_x, lines_y, mesh_x, mesh_y,
                   clusterVars, homogVars, downVars,
                   widthVars, finderVars>>

\* mesh_x, mesh_y = homogenize_lines(...) (lines 163-164) and the return
Homogenize ==
    /\ pc = "measured"
    /\ mesh_x' = homogenize_lines(lines_x, pixel_width)
    /\ mesh_y' = IF mesh_x'.ok THEN homogenize_lines(lines_y, pixel_width)
                 ELSE Returned(<<>>)
    /\ pc' = IF mesh_x'.ok /\ mesh_y'.ok THEN "mesh_done" ELSE "mesh_raised"
    /\ UNCHANGED <<genVars, heapVars, alphaVars, width, height, hough, lines_x, lines_y, pixel_width,
                   clusterVars, homogVars, downVars,
                   widthVars, finderVars>>

NextMesh == ReportSegment \/ DetectGridLines \/ GetPixelWidth \/ Homogenize

SpecMesh == InitMesh /\ [][NextMesh]_vars

(* C4: both coordinate sequences of the mesh returned by compute_mesh have *)
(* length at least 2, for every edge map and every set of segments.        *)
C4_MeshAtLeastTwoLines ==
    pc = "mesh_done" => Len(mesh_x.lines) >= 2 /\ Len(mesh_y.lines) >= 2

(* C5: when the line detector finds nothing, compute_mesh succeeds and     *)
(* returns mesh_x = [0, width-1] and mesh_y = [0, height-1], for every     *)
(* width and height.                                                       *)
C5_NoLinesGivesBorders ==
    (pc \in {"mesh_done", "mesh_raised"} /\ hough = <<>>) =>
        /\ pc = "mesh_done"
        /\ mesh_x.lines = <<0, width - 1>>
        /\ mesh_y.lines = <<0, height - 1>>

(* C6: both coordinate sequences of the mesh returned by compute_mesh are  *)
(* strictly increasing, on an edge map at least 2 wide and 2 high.         *)
C6_MeshStrictlyIncreasing ==
    (pc = "mesh_done" /\ width >= 2 /\ height >= 2) =>
        StrictlyIncreasing(mesh_x.lines) /\ StrictlyIncreasing(mesh_y.lines)

\* a mesh with subdivided sections on both axes, from clustered detections
C6_Witness ==
    /\ pc = "mesh_done"
    /\ width >= 2 /\ height >= 2
    /\ hough # <<>>
    /\ Len(lines_x) >= 2
    /\ Len(mesh_x.lines) > Len(lines_x)
    /\ Len(mesh_y.lines) >= 3

(* C7: the line sets returned by detect_grid_lines contain both border     *)
(* coordinates: 0 and width-1 in lines_x, 0 and height-1 in lines_y.       *)
C7_BordersInLineSets ==
    pc = "detected" =>
        /\ \E i \in 1..Len(lines_x) : lines_x[i] = 0
        /\ \E i \in 1..Len(lines_x) : lines_x[i] = width - 1
        /\ \E i \in 1..Len(lines_y) : lines_y[i] = 0
        /\ \E i \in 1..Len(lines_y) : lines_y[i] = height - 1

----------------------------------------------------------------------------
(* detect_grid_lines segment by segment: the detector reports segments     *)
(* between any two distinct points of the edge map, in either order of     *)
(* their endpoints, and the loop of lines 59-66 takes them one at a time.  *)

SegSpan == 4        \* largest coordinate of an endpoint

SpanDims == 1..(SegSpan + 1)

AnySegments(w, h) ==
    {seg \in (0..(w - 1)) \X (0..(h - 1)) \X (0..(w - 1)) \X (0..(h - 1)) :
        <<seg[1], seg[2]>> # <<seg[3], seg[4]>>}

InitClassify ==
    /\ pc = "segments"
    /\ width \in SpanDims
    /\ height \in SpanDims
    /\ hough = <<>>
    /\ lines_x = <<>>
    /\ lines_y = <<>>
    /\ pixel_width = NoWidth
    /\ mesh_x = Returned(<<>>)
    /\ mesh_y = Returned(<<>>)
    /\ IdleCluster
    /\ IdleHomog
    /\ IdleDown
    /\ IdleWidth
    /\ IdleMse
    /\ IdleSearch
    /\ IdleGen
    /\ IdleHeap
    /\ IdleAlpha

\* cv2.HoughLinesP finds one more segment (line 45)
ReportAnySegment ==
    /\ pc = "segments"
    /\ Len(hough) < MaxSegments
    /\ \E seg \in AnySegments(width, height) : hough' = Append(hough, seg)
    /\ UNCHANGED <<genVars, heapVars, alphaVars, pc, width, height, lines_x, lines_y, pixel_width, mesh_x, mesh_y,
                   clusterVars, homogVars, downVars,
                   widthVars, finderVars>>

\* lines_x, lines_y = [0, width-1], [0, height-1] (line 54); with no segment
\* the function returns them (lines 55-56)
SeedLines ==
    /\ pc = "segments"
    /\ lines_x' = <<0, width - 1>>
    /\ lines_y' = <<0, height - 1>>
    /\ pc' = IF hough = <<>> THEN "classified" ELSE "classifying"
    /\ UNCHANGED <<genVars, heapVars, alphaVars, width, height, hough, pixel_width, mesh_x, mesh_y,
                   clusterVars, homogVars, downVars,
                   widthVars, finderVars>>

\* one pass of the loop of lines 59-66, on the next segment
ClassifySegment ==
    /\ pc = "classifying"
    /\ hough # <<>>
    /\ LET found == CollectFrom(<<Head(hough)>>, 1, <<lines_x, lines_y>>)
       IN  /\ lines_x' = found[1]
           /\ lines_y' = found[2]
    /\ hough' = Tail(hough)
    /\ UNCHANGED <<genVars, heapVars, alphaVars, pc, width, height, pixel_width, mesh_x, mesh_y,
                   clusterVars, homogVars, downVars,
                   widthVars, finderVars>>

\* the loop is over: cluster both lists and return (lines 69-71)
ClusterFound ==
    /\ pc = "classifying"
    /\ hough = <<>>
    /\ lines_x' = cluster_lines(lines_x, ClusterThreshold)
    /\ lines_y' = cluster_lines(lines_y, ClusterThreshold)
    /\ pc' = "classified"
    /\ UNCHANGED <<genVars, heapVars, alphaVars, width, height, hough, pixel_width, mesh_x, mesh_y,
                   clusterVars, homogVars, downVars,
                   widthVars, finderVars>>

NextClassify == ReportAnySegment \/ SeedLines \/ ClassifySegment \/ ClusterFound

SpecClassify == InitClassify /\ [][NextClassify]_vars

\* the line through two points that differ by (dx, dy) makes less than
\* angle_threshold_deg = 15 degrees with the horizontal: |dy| < tan(15) |dx|,
\* tan 15 = 2 - sqrt 3.  Either order of the points gives the same answer.
WithinOfHorizontal(dx, dy) ==
    /\ Abs(dy) < 2 * Abs(dx)
    /\ (2 * Abs(dx) - Abs(dy)) * (2 * Abs(dx) - Abs(dy)) > 3 * dx * dx

WithinOfVertical(dx, dy) == WithinOfHorizontal(dy, dx)

(* C23: for every segment (x1, y1, x2, y2) that the line detector reports, *)
(* in either order of its two endpoints, the loop adds its midpoint y to   *)
(* lines_y only if the segment is within 15 degrees of horizontal, adds    *)
(* its midpoint x to lines_x only if it is within 15 degrees of vertical,  *)
(* and adds nothing to either list if it is more than 15 degrees away from *)
(* both axes.                                                              *)
C23_ClassifiedByDirection ==
    [][(pc = "classifying" /\ hough # <<>> /\ hough' = Tail(hough)) =>
          LET seg == Head(hough)
              dx == seg[3] - seg[1]
              dy == seg[4] - seg[2]
          IN  /\ lines_y' # lines_y => WithinOfHorizontal(dx, dy)
              /\ lines_x' # lines_x => WithinOfVertical(dx, dy)
              /\ (~WithinOfHorizontal(dx, dy) /\ ~WithinOfVertical(dx, dy)) =>
                    (lines_x' = lines_x /\ lines_y' = lines_y)]_vars

----------------------------------------------------------------------------
(* compute_mesh on a checkerboard of solid cells, CellSize pixels wide and *)
(* high.  The line detector reports one segment on every boundary between  *)
(* two cells, over the whole edge map, in any order.                       *)

\* utils.crop_border(img, num_pixels): the size left of a side of n pixels
CroppedSize(n) == n - 2 * CropBorder

\* the number of cells along a side of the edge map
CellsAlong(side) == (side + 2 * CropBorder) \div CellSize

\* the cell boundaries along a side, in the coordinates of the edge map:
\* the first pixel of every cell but the first
Boundaries(side) == {CellSize * k - CropBorder : k \in 1..(CellsAlong(side) - 1)}

BoardSegments(w, h) ==
    {<<x, 0, x, h - 1>> : x \in Boundaries(w)}
    \cup {<<x, h - 1, x, 0>> : x \in Boundaries(w)}
    \cup {<<0, y, w - 1, y>> : y \in Boundaries(h)}

\* the boundary a segment lies on: <<"x", c>> or <<"y", c>>
BoundaryOf(seg) == IF seg[1] = seg[3] THEN <<"x", seg[1]>> ELSE <<"y", seg[2]>>

Reported == {BoundaryOf(hough[i]) : i \in 1..Len(hough)}

AllReported ==
    Reported = ({"x"} \X Boundaries(width)) \cup ({"y"} \X Boundaries(height))

InitBoard ==
    /\ pc = "board_start"
    /\ width \in {CroppedSize(CellSize * n) : n \in 2..MaxCells}
    /\ height \in {CroppedSize(CellSize * n) : n \in 2..MaxCells}
    /\ hough = <<>>
    /\ lines_x = <<>>
    /\ lines_y = <<>>
    /\ pixel_width = NoWidth
    /\ mesh_x = Returned(<<>>)
    /\ mesh_y = Returned(<<>>)
    /\ IdleCluster
    /\ IdleHomog
    /\ IdleDown
    /\ IdleWidth
    /\ IdleMse
    /\ IdleSearch
    /\ IdleGen
    /\ IdleHeap
    /\ IdleAlpha

\* cv2.HoughLinesP finds the segment of one more boundary (line 45)
BoardReport ==
    /\ pc = "board_start"
    /\ \E seg \in BoardSegments(width, height) :
          /\ BoundaryOf(seg) \notin Reported
          /\ hough' = Append(hough, seg)
    /\ UNCHANGED <<genVars, heapVars, alphaVars, pc, width, height, lines_x, lines_y, pixel_width, mesh_x, mesh_y,
                   clusterVars, homogVars, downVars, widthVars, finderVars>>

\* lines_x, lines_y = detect_grid_lines(closed_edges) (line 157)
BoardDetect ==
    /\ pc = "board_start"
    /\ AllReported
    /\ LET found == detect_grid_lines(width, height, hough)
       IN  /\ lines_x' = found[1]
           /\ lines_y' = found[2]
    /\ pc' = "detected"
    /\ UNCHANGED <<genVars, heapVars, alphaVars, width, height, hough, pixel_width, mesh_x, mesh_y,
                   clusterVars, homogVars, downVars, widthVars, finderVars>>

NextBoard == BoardReport \/ BoardDetect \/ GetPixelWidth \/ Homogenize

SpecBoard == InitBoard /\ [][NextBoard]_vars

\* consecutive lines are CellSize apart, give or take one pixel
SpacedByCell(lines) ==
    \A i \in 1..(Len(lines) - 1) : Abs(lines[i + 1] - lines[i] - CellSize) <= 1

(* C19: on an image that is a perfect grid of 10x10-pixel solid cells,     *)
(* with the line detector reporting the true cell boundaries, compute_mesh *)
(* returns line lists in which every two consecutive coordinates on each   *)
(* axis differ by 10 within a tolerance of 1 pixel.                        *)
C19_BoardSpacing ==
    pc \in {"mesh_done", "mesh_raised"} =>
        /\ pc = "mesh_done"
        /\ SpacedByCell(mesh_x.lines)
        /\ SpacedByCell(mesh_y.lines)

----------------------------------------------------------------------------
(* cluster_lines on its own: any list, any threshold >= 0 *)

ClusterCoords == (0 - NegCoord)..MaxCoord

InitCluster ==
    /\ pc = "cluster_start"
    /\ cl_lines \in SeqsUpTo(ClusterCoords, 0, MaxLen)
    /\ cl_threshold \in 0..MaxThreshold
    /\ cl_out = <<>>
    /\ cl_again = <<>>
    /\ IdleHomog
    /\ IdleMesh
    /\ IdleDown
    /\ IdleWidth
    /\ IdleMse
    /\ IdleSearch
    /\ IdleGen
    /\ IdleHeap
    /\ IdleAlpha

\* clustered = cluster_lines(lines, threshold)
ClusterCall ==
    /\ pc = "cluster_start"
    /\ cl_out' = cluster_lines(cl_lines, cl_threshold)
    /\ pc' = "clustered"
    /\ UNCHANGED <<genVars, heapVars, alphaVars, cl_lines, cl_threshold, cl_again, homogVars, meshVars, downVars,
                   widthVars, finderVars>>

\* cluster_lines(clustered, threshold)
ClusterAgain ==
    /\ pc = "clustered"
    /\ cl_again' = cluster_lines(cl_out, cl_threshold)
    /\ pc' = "reclustered"
    /\ UNCHANGED <<genVars, heapVars, alphaVars, cl_lines, cl_threshold, cl_out, homogVars, meshVars, downVars,
                   widthVars, finderVars>>

NextCluster == ClusterCall \/ ClusterAgain

SpecCluster == InitCluster /\ [][NextCluster]_vars

----------------------------------------------------------------------------
(* C8: for every list of integers and every threshold >= 0, the output of  *)
(* cluster_lines is strictly ascending and any two of its elements differ  *)
(* by more than the threshold.                                             *)
C8_ClusterSeparated ==
    pc \in {"clustered", "reclustered"} =>
        /\ StrictlyIncreasing(cl_out)
        /\ \A i, j \in 1..Len(cl_out) : i < j => cl_out[j] - cl_out[i] > cl_threshold

\* a chained cluster of three (span wider than the threshold) next to another cluster
C8_Witness ==
    /\ pc = "clustered"
    /\ Len(cl_lines) = 3
    /\ cl_threshold > 0
    /\ Len(cl_out) = 2
    /\ cl_lines # Sorted(cl_lines)

(* C9: cluster_lines is idempotent:                                        *)
(* cluster_lines(cluster_lines(L, t), t) = cluster_lines(L, t).            *)
C9_ClusterIdempotent ==
    pc = "reclustered" => cl_again = cl_out

\* the second call has run on an output that merged lines and kept several
C9_Witness ==
    /\ pc = "reclustered"
    /\ Len(cl_out) >= 2
    /\ Len(cl_out) < Len(cl_lines)
    /\ cl_again = cl_out

\* the sorted input, and the places where it jumps by more than the threshold
SortedInput == Sorted(cl_lines)
Jumps == {i \in 1..(Len(SortedInput) - 1) :
             SortedInput[i + 1] - SortedInput[i] > cl_threshold}

\* the k-th smallest element of a set of integers
KthOf(S, k) == CHOOSE x \in S : Cardinality({y \in S : y < x}) = k - 1

\* the k-th maximal run of SortedInput whose neighbours are at most the
\* threshold apart goes from RunStart(k) to RunEnd(k)
RunStart(k) == KthOf({1} \cup {i + 1 : i \in Jumps}, k)
RunEnd(k) == KthOf(Jumps \cup {Len(SortedInput)}, k)

\* the median of the run, a mean of two middle elements cut toward zero
RunMedian(k) ==
    LET a == RunStart(k)
        m == RunEnd(k) - a + 1
        mid == SortedInput[a + (m - 1) \div 2]
        sum == SortedInput[a + m \div 2 - 1] + SortedInput[a + m \div 2]
    IN  IF m % 2 = 1 THEN mid
        ELSE IF sum >= 0 THEN sum \div 2 ELSE 0 - ((0 - sum) \div 2)

(* C20: cluster_lines returns one value per maximal run of the sorted      *)
(* input whose consecutive elements differ by at most the threshold; the   *)
(* value is the run's median truncated to an integer (for a run of even    *)
(* size, the mean of the two middle elements, truncated); the number of    *)
(* outputs is 1 plus the number of adjacent sorted pairs differing by more *)
(* than the threshold; an empty input gives an empty output.               *)
C20_OneMedianPerRun ==
    pc = "clustered" =>
        /\ cl_lines = <<>> => cl_out = <<>>
        /\ cl_lines # <<>> =>
              /\ Len(cl_out) = 1 + Cardinality(Jumps)
              /\ \A k \in 1..Len(cl_out) : cl_out[k] = RunMedian(k)

\* an unsorted list with a run of two whose mean is a negative half-integer,
\* next to another run
C20_Witness ==
    /\ pc = "clustered"
    /\ cl_lines # SortedInput
    /\ Len(cl_out) = 2
    /\ \E k \in 1..2 :
          /\ RunEnd(k) = RunStart(k) + 1
          /\ SortedInput[RunStart(k)] + SortedInput[RunEnd(k)] < 0
          /\ (SortedInput[RunStart(k)] + SortedInput[RunEnd(k)]) % 2 = 1

----------------------------------------------------------------------------
(* homogenize_lines on its own: any list of coordinates, any positive      *)
(* pixel width that is a multiple of one half                              *)

HomogCoords == 0..MaxCoord

InitHomog ==
    /\ pc = "homog_start"
    /\ hl_lines \in SeqsUpTo(HomogCoords, 1, MaxLen)
    /\ hl_width \in {[num |-> n, den |-> 2] : n \in 1..MaxWidth2}
    /\ hl_out = Returned(<<>>)
    /\ IdleCluster
    /\ IdleMesh
    /\ IdleDown
    /\ IdleWidth
    /\ IdleMse
    /\ IdleSearch
    /\ IdleGen
    /\ IdleHeap
    /\ IdleAlpha

\* complete = homogenize_lines(lines, pixel_width)
HomogCall ==
    /\ pc = "homog_start"
    /\ hl_out' = homogenize_lines(hl_lines, hl_width)
    /\ pc' = "homogenized"
    /\ UNCHANGED <<genVars, heapVars, alphaVars, hl_lines, hl_width, clusterVars, meshVars, downVars,
                   widthVars, finderVars>>

NextHomog == HomogCall

SpecHomog == InitHomog /\ [][NextHomog]_vars

\* the claim's precondition: strictly increasing, at least two lines
HomogPre == Len(hl_lines) >= 2 /\ StrictlyIncreasing(hl_lines)

(* C10: for every strictly increasing line list of length >= 2 and every   *)
(* positive pixel_width, the first element of homogenize_lines' output is  *)
(* the first input coordinate and the last element is the last input       *)
(* coordinate.                                                             *)
C10_FirstAndLastKept ==
    (pc = "homogenized" /\ HomogPre) =>
        /\ hl_out.ok
        /\ hl_out.lines[1] = hl_lines[1]
        /\ Last(hl_out.lines) = Last(hl_lines)

\* pixel_width is at most the gap between lines i and i + 1
WidthAtMostGap(i) == hl_width.num <= hl_width.den * (hl_lines[i + 1] - hl_lines[i])

(* C11: for every strictly increasing line list and every positive         *)
(* pixel_width no larger than the smallest gap between adjacent lines, the *)
(* output of homogenize_lines has at least as many elements as the input.  *)
C11_LengthNotShorter ==
    (/\ pc = "homogenized"
     /\ StrictlyIncreasing(hl_lines)
     /\ \A i \in 1..(Len(hl_lines) - 1) : WidthAtMostGap(i)) =>
        /\ hl_out.ok
        /\ Len(hl_out.lines) >= Len(hl_lines)

\* three lines, one gap equal to pixel_width and one gap that is subdivided
C11_Witness ==
    /\ pc = "homogenized"
    /\ Len(hl_lines) = 3
    /\ StrictlyIncreasing(hl_lines)
    /\ \A i \in 1..2 : WidthAtMostGap(i)
    /\ \E i \in 1..2 : hl_width.num = hl_width.den * (hl_lines[i + 1] - hl_lines[i])
    /\ hl_out.ok
    /\ Len(hl_out.lines) > Len(hl_lines)

----------------------------------------------------------------------------
(* homogenize_lines on long sections: one or two gaps, the first up to     *)
(* FarCoord wide, and pixel widths of 1 and more in eighths                *)

FarCoord == 30
MaxWidth8 == 11

FarLines ==
    {<<s, b>> : s \in 0..MaxGap, b \in 0..FarCoord}
        \cup {<<s, b, b + g>> : s \in 0..MaxGap, b \in 0..FarCoord, g \in 0..MaxGap}

InitFar ==
    /\ pc = "homog_start"
    /\ hl_lines \in FarLines
    /\ hl_width \in {[num |-> n, den |-> 8] : n \in 8..MaxWidth8}
    /\ hl_out = Returned(<<>>)
    /\ IdleCluster
    /\ IdleMesh
    /\ IdleDown
    /\ IdleWidth
    /\ IdleMse
    /\ IdleSearch
    /\ IdleGen
    /\ IdleHeap
    /\ IdleAlpha

NextFar == HomogCall

SpecFar == InitFar /\ [][NextFar]_vars

\* n = round(g / pixel_width) of the gap after line i, halves to the even integer
GapCount(i) ==
    RoundHalfEven((hl_lines[i + 1] - hl_lines[i]) * hl_width.den, hl_width.num)

\* the points s + floor(j * g / n), j = 0..n-1, of the gap after line i
GapPoints(i) ==
    LET g == hl_lines[i + 1] - hl_lines[i]
        n == GapCount(i)
    IN  [k \in 1..n |-> hl_lines[i] + ((k - 1) * g) \div n]

RECURSIVE SumOfCounts(_)
SumOfCounts(i) == IF i = 0 THEN 0 ELSE GapCount(i) + SumOfCounts(i - 1)

\* every distance from a point of gap i to the next one, the next original
\* line after the last point, is floor(g / n) or ceil(g / n)
EvenlySpaced(i) ==
    LET g == hl_lines[i + 1] - hl_lines[i]
        n == GapCount(i)
        first == SumOfCounts(i - 1) + 1
    IN  \A k \in 0..(n - 1) :
            LET here == hl_out.lines[first + k]
                next == IF k = n - 1 THEN hl_lines[i + 1] ELSE hl_out.lines[first + k + 1]
            IN  next - here \in {g \div n, (g + n - 1) \div n}

(* C21: for every strictly increasing line list and pixel_width >= 1,      *)
(* homogenize_lines replaces each gap g starting at line s by the          *)
(* n = round(g / pixel_width) points s + floor(j*g/n), j = 0..n-1 (exact   *)
(* halves round to the even integer), so that inside each gap every        *)
(* distance between consecutive output lines, the next original line       *)
(* included, is floor(g/n) or ceil(g/n), and the output has                *)
(* 1 + (sum of n over all gaps) elements.                                  *)
C21_SectionPoints ==
    (/\ pc = "homogenized"
     /\ StrictlyIncreasing(hl_lines)
     /\ hl_width.num >= hl_width.den) =>
        /\ hl_out.ok
        /\ Len(hl_out.lines) = 1 + SumOfCounts(Len(hl_lines) - 1)
        /\ hl_out.lines =
              Append(Flatten([i \in 1..(Len(hl_lines) - 1) |-> GapPoints(i)]),
                     Last(hl_lines))
        /\ \A i \in 1..(Len(hl_lines) - 1) : EvenlySpaced(i)

----------------------------------------------------------------------------
(* get_pixel_width on its own: two non-decreasing line lists that start at 0 *)

\* the line list that starts at 0 and has the gaps g
RECURSIVE LinesOf(_)
LinesOf(g) ==
    IF g = <<>> THEN <<0>>
    ELSE LET before == LinesOf(SubSeq(g, 1, Len(g) - 1))
         IN  Append(before, Last(before) + Last(g))

LineLists == {LinesOf(g) : g \in SeqsUpTo(0..MaxGap, 0, MaxGaps)}

InitWidth ==
    /\ pc = "width_start"
    /\ gw_x \in LineLists
    /\ gw_y \in LineLists
    /\ gw_out = [ok |-> TRUE, w |-> NoWidth]
    /\ gw_more = <<>>
    /\ gw_again = [ok |-> TRUE, w |-> NoWidth]
    /\ IdleCluster
    /\ IdleHomog
    /\ IdleMesh
    /\ IdleDown
    /\ IdleMse
    /\ IdleSearch
    /\ IdleGen
    /\ IdleHeap
    /\ IdleAlpha

\* pixel_width = get_pixel_width(lines_x, lines_y)
WidthCall ==
    /\ pc = "width_start"
    /\ gw_out' \in WidthOutcomes(gw_x, gw_y)
    /\ pc' = IF gw_out'.ok THEN "width_done" ELSE "width_raised"
    /\ UNCHANGED <<genVars, heapVars, alphaVars, gw_x, gw_y, gw_more, gw_again,
                   clusterVars, homogVars, meshVars, downVars, finderVars>>

\* the pooled gaps of a pair of line lists
PooledGaps(lx, ly) == Diff(lx) \o Diff(ly)

\* get_pixel_width on the lists with one more line on one axis, whose gap to
\* the last line is a gap that the lists already have
WidthAgain ==
    /\ pc = "width_done"
    /\ \E k \in 1..Len(PooledGaps(gw_x, gw_y)) :
          LET v == PooledGaps(gw_x, gw_y)[k]
          IN  \/ gw_more' = <<Append(gw_x, Last(gw_x) + v), gw_y>>
              \/ gw_more' = <<gw_x, Append(gw_y, Last(gw_y) + v)>>
    /\ gw_again' \in WidthOutcomes(gw_more'[1], gw_more'[2])
    /\ pc' = "width_again"
    /\ UNCHANGED <<genVars, heapVars, alphaVars, gw_x, gw_y, gw_out,
                   clusterVars, homogVars, meshVars, downVars, finderVars>>

NextWidth == WidthCall \/ WidthAgain

SpecWidth == InitWidth /\ [][NextWidth]_vars

(* C12 as stated: get_pixel_width returns a strictly positive value for    *)
(* every pair of non-decreasing line lists in which at least one adjacent  *)
(* gap, over both axes, is non-zero.                                       *)
C12_PositiveWithOneGap ==
    (/\ pc = "width_done"
     /\ \E k \in 1..Len(PooledGaps(gw_x, gw_y)) : PooledGaps(gw_x, gw_y)[k] # 0) =>
        /\ ~IsNan(gw_out.w)
        /\ gw_out.w.num > 0

(* C12 amended: get_pixel_width returns a strictly positive value for      *)
(* every pair of non-decreasing line lists that have at least one adjacent *)
(* gap and in which every adjacent gap, over both axes, is non-zero.       *)
C12_PositiveWithAllGaps ==
    (/\ pc \in {"width_done", "width_raised"}
     /\ PooledGaps(gw_x, gw_y) # <<>>
     /\ \A k \in 1..Len(PooledGaps(gw_x, gw_y)) : PooledGaps(gw_x, gw_y)[k] # 0) =>
        /\ pc = "width_done"
        /\ ~IsNan(gw_out.w)
        /\ gw_out.w.num > 0

\* unequal non-zero gaps on both axes, one of them trimmed away
C12_Witness ==
    /\ pc = "width_done"
    /\ Len(gw_x) >= 3 /\ Len(gw_y) >= 2
    /\ \A k \in 1..Len(PooledGaps(gw_x, gw_y)) : PooledGaps(gw_x, gw_y)[k] # 0
    /\ Len(Middle(PooledGaps(gw_x, gw_y))) \in 1..(Len(PooledGaps(gw_x, gw_y)) - 1)
    /\ gw_out.w.num > 0

\* the gap of the added line, and whether it lies in the band that
\* get_pixel_width retains of the first sample
AddedGap ==
    IF gw_more[1] # gw_x THEN Last(gw_more[1]) - Last(gw_x)
    ELSE Last(gw_more[2]) - Last(gw_y)
InBand(v) ==
    /\ TrimDen * v >= Percentile5(PooledGaps(gw_x, gw_y), 1)
    /\ TrimDen * v <= Percentile5(PooledGaps(gw_x, gw_y), TrimDen - 1)

(* C13 as stated: for every pooled gap sample and every value v that       *)
(* already occurs in it and lies inside the retained percentile band,      *)
(* adding one more gap equal to v leaves the returned width unchanged.     *)
C13_DuplicateKeepsWidth ==
    (pc = "width_again" /\ InBand(AddedGap)) => gw_again = gw_out

\* every gap that get_pixel_width retains of the first sample equals v
OnlyRetained(v) ==
    \A k \in 1..Len(Middle(PooledGaps(gw_x, gw_y))) :
        Middle(PooledGaps(gw_x, gw_y))[k] = v

(* C13 amended: for every pooled gap sample and every value v that occurs  *)
(* in it and is the only value inside the retained percentile band, adding *)
(* one more gap equal to v leaves the returned width unchanged.            *)
C13_SoleRetainedValueKeepsWidth ==
    (pc = "width_again" /\ InBand(AddedGap) /\ OnlyRetained(AddedGap)) =>
        gw_again = gw_out

\* a sample with gaps that are trimmed away, to which its retained value is added
C13_Witness ==
    /\ pc = "width_again"
    /\ InBand(AddedGap)
    /\ OnlyRetained(AddedGap)
    /\ Len(Middle(PooledGaps(gw_x, gw_y))) >= 2
    /\ Len(Middle(PooledGaps(gw_x, gw_y))) < Len(PooledGaps(gw_x, gw_y))
    /\ gw_again = gw_out

\* the k-th smallest value of a sample, repeated values counted
Ranked(s, k) ==
    CHOOSE v \in {s[i] : i \in DOMAIN s} :
        /\ Cardinality({i \in DOMAIN s : s[i] < v}) < k
        /\ Cardinality({i \in DOMAIN s : s[i] <= v}) >= k

\* TrimDen times the linearly interpolated percentile of a sample at
\* 100 * k / TrimDen
Interpolated5(s, k) ==
    LET pos == k * (Len(s) - 1)
        below == Ranked(s, pos \div TrimDen + 1)
        above == Ranked(s, Min(pos \div TrimDen + 2, Len(s)))
    IN  (TrimDen - (pos % TrimDen)) * below + (pos % TrimDen) * above

\* the pooled gaps inside the band, its bounds included
InsideBand ==
    SelectSeq(PooledGaps(gw_x, gw_y),
              LAMBDA g : /\ Interpolated5(PooledGaps(gw_x, gw_y), 1) <= TrimDen * g
                         /\ TrimDen * g <= Interpolated5(PooledGaps(gw_x, gw_y), TrimDen - 1))

\* twice the median of a sample: the sum of its two middle values
TwiceMedian(s) == Ranked(s, (Len(s) + 1) \div 2) + Ranked(s, Len(s) \div 2 + 1)

(* C22: get_pixel_width pools the adjacent gaps of both axes into one      *)
(* sample and returns the median of the gaps g with P_low <= g <= P_high,  *)
(* bounds included, where P_low and P_high are the linearly interpolated   *)
(* percentiles of the pooled sample at 100 * trim_fraction and             *)
(* 100 * (1 - trim_fraction); if no gap lies in that band it returns the   *)
(* median of the whole pooled sample.  The result lies between the         *)
(* smallest and the largest pooled gap.                                    *)
C22_MedianOfBand ==
    (pc \in {"width_done", "width_raised"} /\ PooledGaps(gw_x, gw_y) # <<>>) =>
        LET gaps == PooledGaps(gw_x, gw_y)
        IN  /\ pc = "width_done"
            /\ gw_out.w.den = 2
            /\ gw_out.w.num =
                  TwiceMedian(IF InsideBand = <<>> THEN gaps ELSE InsideBand)
            /\ 2 * Ranked(gaps, 1) <= gw_out.w.num
            /\ gw_out.w.num <= 2 * Ranked(gaps, Len(gaps))

\* gaps of both axes, some of them trimmed away and a retained one on a
\* bound of the band
C22_Witness ==
    /\ pc = "width_done"
    /\ Len(gw_x) >= 2 /\ Len(gw_y) >= 2
    /\ InsideBand # <<>>
    /\ Len(InsideBand) < Len(PooledGaps(gw_x, gw_y))
    /\ \E i \in DOMAIN InsideBand :
          TrimDen * InsideBand[i] = Interpolated5(PooledGaps(gw_x, gw_y), TrimDen - 1)
    /\ gw_out.w.num = TwiceMedian(InsideBand)
    /\ gw_out.w.num # TwiceMedian(PooledGaps(gw_x, gw_y))

----------------------------------------------------------------------------
(* compute_mse on its own: two images of any sizes, with and without a box *)

Greys == {0, 100}

\* the images w wide and h high
Images(w, h) == [1..h -> [1..w -> Greys]]

MseImages == UNION {Images(w, h) : w \in 1..MseDim, h \in 1..2}

\* boxes that lie inside the images, cut across their edges, or reach beyond
MseBoxes == {<<l, t, r, b>> : l \in {-1, 0}, t \in {-1, 0}, r \in {1, 2}, b \in {1, 2}}

InitMse ==
    /\ pc = "mse_start"
    /\ ms_full \in MseImages
    /\ ms_test \in MseImages
    /\ ms_box \in {<<>>} \cup MseBoxes
    /\ ms_out = MseRaised
    /\ IdleCluster
    /\ IdleHomog
    /\ IdleMesh
    /\ IdleDown
    /\ IdleWidth
    /\ IdleSearch
    /\ IdleGen
    /\ IdleHeap
    /\ IdleAlpha

\* utils.compute_mse(image1, image2, region_box)
MseCall ==
    /\ pc = "mse_start"
    /\ ms_out' = compute_mse(ms_full, ms_test, ms_box)
    /\ pc' = IF ms_out'.ok THEN "mse_done" ELSE "mse_raised"
    /\ UNCHANGED <<genVars, heapVars, alphaVars, ms_full, ms_test, ms_box,
                   clusterVars, homogVars, meshVars, downVars, widthVars, searchVars>>

NextMse == MseCall

SpecMse == InitMse /\ [][NextMse]_vars

SizesDiffer == Shape(ms_full) # Shape(ms_test)

(* C18 as stated: compute_mse raises an error whenever the two images it   *)
(* compares have different sizes, with or without a region_box; it never   *)
(* returns a number for mismatched images.                                 *)
C18_MismatchRaises ==
    (pc \in {"mse_done", "mse_raised"} /\ SizesDiffer) => pc = "mse_raised"

(* C18 amended: for two images of different sizes, compute_mse raises an   *)
(* error when it is called without a region_box; with a region_box both    *)
(* images are cropped to the box and it returns a number.                  *)
C18_MismatchRaisesWithoutBox ==
    (pc \in {"mse_done", "mse_raised"} /\ SizesDiffer) =>
        /\ ms_box = <<>> => pc = "mse_raised"
        /\ ms_box # <<>> => pc = "mse_done" /\ ms_out.ok

\* images of different sizes compared over a box that reaches beyond the
\* smaller one: a number is returned, and it is not 0
C18_Witness ==
    /\ pc = "mse_done"
    /\ SizesDiffer
    /\ ms_box = <<0, 0, 2, 2>>
    /\ Shape(ms_test) = <<1, 1>>
    /\ ms_out.ok
    /\ ms_out.num > 0

----------------------------------------------------------------------------
(* estimate_scale_factor_with_offset: one step per candidate of the loops  *)
(* of lines 95-145.  The input is a small image enlarged by a whole factor *)
(* (factor 1: the small image itself).                                     *)

\* every pixel repeated f times along both axes
Enlarged(base, f) ==
    [y \in 1..(ImgHeight(base) * f) |->
        [x \in 1..(ImgWidth(base) * f) |-> base[(y - 1) \div f + 1][(x - 1) \div f + 1]]]

\* base[x][y] for base[y][x]
Transposed(base) ==
    [y \in 1..ImgWidth(base) |-> [x \in 1..ImgHeight(base) |-> base[x][y]]]

BaseImages == UNION {Images(w, 1) : w \in 1..BaseW}

EnlargedImages ==
    {Enlarged(b, f) : b \in BaseImages, f \in 1..4}
    \cup {Enlarged(Transposed(b), f) : b \in BaseImages, f \in 1..4}

\* the image with its top left pixel set to g
WithCorner(img, g) == [img EXCEPT ![1][1] = g]

\* enlarged images, and enlarged images with one stray pixel
SearchImages == {WithCorner(img, g) : img \in EnlargedImages, g \in Greys}

InitSearch ==
    /\ pc = "search_start"
    /\ sr_image \in SearchImages
    /\ sr_max_scale \in 2..MaxScale
    /\ sr_max_offset \in {0, 1, DefaultMaxOffset}
    /\ sr_scale = FirstScale
    /\ sr_oy = 0 - sr_max_offset
    /\ sr_ox = 0 - sr_max_offset
    /\ sr_best = NoBest
    /\ sr_seen = <<>>
    /\ IdleCluster
    /\ IdleHomog
    /\ IdleMesh
    /\ IdleDown
    /\ IdleWidth
    /\ IdleMse
    /\ IdleGen
    /\ IdleHeap
    /\ IdleAlpha

\* the loop over the scales without the break of lines 96-97
ScaleInRangeNoBreak == sr_scale <= sr_max_scale

\* lines 95-97: the loop over the scales goes on
ScaleInRange ==
    /\ sr_scale <= sr_max_scale
    /\ sr_scale <= ImgWidth(sr_image)
    /\ sr_scale <= ImgHeight(sr_image)

\* the next candidate of the loops of lines 95, 100 and 101
Advance ==
    IF sr_ox < sr_max_offset
    THEN /\ sr_ox' = sr_ox + 1
         /\ UNCHANGED <<sr_oy, sr_scale>>
    ELSE /\ sr_ox' = 0 - sr_max_offset
         /\ IF sr_oy < sr_max_offset
            THEN /\ sr_oy' = sr_oy + 1
                 /\ UNCHANGED sr_scale
            ELSE /\ sr_oy' = 0 - sr_max_offset
                 /\ sr_scale' = sr_scale + 1

\* lines 105-108: the region is empty, continue
SkipCandidate ==
    /\ pc = "search_start"
    /\ ScaleInRange
    /\ Skipped(ImgWidth(sr_image), ImgHeight(sr_image), sr_scale, sr_ox, sr_oy)
    /\ Advance
    /\ UNCHANGED <<genVars, heapVars, alphaVars, pc, sr_image, sr_max_scale, sr_max_offset, sr_best, sr_seen,
                   clusterVars, homogVars, meshVars, downVars, widthVars, mseVars>>

\* lines 105-145: one candidate is reconstructed and compared with the best
EvaluateCandidate ==
    /\ pc = "search_start"
    /\ ScaleInRange
    /\ ~Skipped(ImgWidth(sr_image), ImgHeight(sr_image), sr_scale, sr_ox, sr_oy)
    /\ LET box == RegionBox(ImgWidth(sr_image), ImgHeight(sr_image), sr_scale, sr_ox, sr_oy)
           mse_val == CandidateMse(sr_image, sr_scale, box)
       IN  /\ sr_seen' = Append(sr_seen, [scale |-> sr_scale, offset |-> <<sr_ox, sr_oy>>,
                                          mse |-> mse_val])
           /\ sr_best' = IF MseLess(mse_val, sr_best.mse)
                         THEN [scale |-> sr_scale, offset |-> <<sr_ox, sr_oy>>,
                               mse |-> mse_val, img |-> Downscaled(sr_image, sr_scale, box)]
                         ELSE sr_best
    /\ Advance
    /\ UNCHANGED <<genVars, heapVars, alphaVars, pc, sr_image, sr_max_scale, sr_max_offset,
                   clusterVars, homogVars, meshVars, downVars, widthVars, mseVars>>

\* line 147: return best_scale, best_offset, best_mse_val, best_img
SearchReturn ==
    /\ pc = "search_start"
    /\ ~ScaleInRange
    /\ pc' = "search_done"
    /\ UNCHANGED <<genVars, heapVars, alphaVars, searchVars,
                   clusterVars, homogVars, meshVars, downVars, widthVars, mseVars>>

NextSearch == SkipCandidate \/ EvaluateCandidate \/ SearchReturn

SpecSearch == InitSearch /\ [][NextSearch]_vars

\* two mean squared errors are the same number, or one is at most the other
SameMse(a, b) == a.num * b.den = b.num * a.den
NotAbove(a, b) == a.num * b.den <= b.num * a.den

\* candidate i of sr_seen is the one that was returned, with its image
IsReturned(i) ==
    /\ sr_seen[i].scale = sr_best.scale
    /\ sr_seen[i].offset = sr_best.offset
    /\ sr_seen[i].mse = sr_best.mse
    /\ sr_best.img =
          Downscaled(sr_image, sr_seen[i].scale,
                     RegionBox(ImgWidth(sr_image), ImgHeight(sr_image), sr_seen[i].scale,
                               sr_seen[i].offset[1], sr_seen[i].offset[2]))

(* C14: whenever at least one candidate is evaluated, the MSE returned by  *)
(* estimate_scale_factor_with_offset is at most the MSE of every candidate *)
(* evaluated, and the returned scale, offset and downscaled image belong   *)
(* to one single candidate that attains it.                                *)
C14_ReturnsAMinimum ==
    (pc = "search_done" /\ sr_seen # <<>>) =>
        /\ \A i \in 1..Len(sr_seen) : NotAbove(sr_best.mse, sr_seen[i].mse)
        /\ \E i \in 1..Len(sr_seen) : IsReturned(i)

\* the best candidate was neither the first nor the last one evaluated, and
\* worse ones came before and after it
C14_Witness ==
    /\ pc = "search_done"
    /\ \E i \in 2..(Len(sr_seen) - 1) :
          /\ IsReturned(i)
          /\ sr_best.mse.num > 0
          /\ ~NotAbove(sr_seen[1].mse, sr_best.mse)
          /\ ~NotAbove(sr_seen[Len(sr_seen)].mse, sr_best.mse)

\* candidate a comes before candidate b when sorted by (scale, offset_x, offset_y)
BeforeByXY(a, b) ==
    \/ a.scale < b.scale
    \/ a.scale = b.scale /\ a.offset[1] < b.offset[1]
    \/ a.scale = b.scale /\ a.offset[1] = b.offset[1] /\ a.offset[2] < b.offset[2]

\* candidate a comes before candidate b when sorted by (scale, offset_y, offset_x)
BeforeByYX(a, b) ==
    \/ a.scale < b.scale
    \/ a.scale = b.scale /\ a.offset[2] < b.offset[2]
    \/ a.scale = b.scale /\ a.offset[2] = b.offset[2] /\ a.offset[1] < b.offset[1]

(* C15 as stated: when several candidates tie for the lowest MSE, the      *)
(* search returns the one that comes first in the order sorted by (scale,  *)
(* offset_x, offset_y): the lowest scale, then the smallest offset_x, then *)
(* the smallest offset_y.                                                  *)
C15_FirstByScaleXY ==
    pc = "search_done" =>
        \A i \in 1..Len(sr_seen) :
            SameMse(sr_seen[i].mse, sr_best.mse) => ~BeforeByXY(sr_seen[i], sr_best)

(* C15 amended: when several candidates tie for the lowest MSE, the search *)
(* returns the one that comes first in the order sorted by (scale,         *)
(* offset_y, offset_x): the lowest scale, then the smallest offset_y, then *)
(* the smallest offset_x.                                                  *)
C15_FirstByScaleYX ==
    pc = "search_done" =>
        \A i \in 1..Len(sr_seen) :
            SameMse(sr_seen[i].mse, sr_best.mse) => ~BeforeByYX(sr_seen[i], sr_best)

\* a tie for the lowest MSE between two candidates of one scale, one with
\* the smaller offset_x and one with the smaller offset_y
C15_Witness ==
    /\ pc = "search_done"
    /\ \E i, j \in 1..Len(sr_seen) :
          /\ IsReturned(i)
          /\ SameMse(sr_seen[j].mse, sr_best.mse)
          /\ sr_seen[j].scale = sr_best.scale
          /\ sr_seen[j].offset[1] < sr_best.offset[1]
          /\ sr_seen[j].offset[2] > sr_best.offset[2]

\* the image repeats every pixel 4 times along both axes
EnlargedBy4(img) ==
    /\ ImgWidth(img) % 4 = 0
    /\ ImgHeight(img) % 4 = 0
    /\ \A y \in 1..ImgHeight(img) : \A x \in 1..ImgWidth(img) :
          img[y][x] = img[((y - 1) \div 4) * 4 + 1][((x - 1) \div 4) * 4 + 1]

\* a candidate evaluated before the one of scale 4 and offset (0, 0)
BeforeScale4(c) ==
    \/ c.scale < 4
    \/ c.scale = 4 /\ c.offset[2] < 0
    \/ c.scale = 4 /\ c.offset[2] = 0 /\ c.offset[1] < 0

(* C16 as stated: for every image that is exactly a nearest-neighbour      *)
(* upscale by 4 of a smaller image, the scale/offset search returns scale  *)
(* 4, offset (0, 0) and an MSE of 0.                                       *)
C16_Recovers4 ==
    (pc = "search_done" /\ EnlargedBy4(sr_image) /\ sr_max_scale >= 4) =>
        /\ sr_best.scale = 4
        /\ sr_best.offset = <<0, 0>>
        /\ sr_best.mse.num = 0 /\ sr_best.mse.den > 0

(* C16 amended: for every image that is exactly a nearest-neighbour        *)
(* upscale by 4 of a smaller image, the scale/offset search returns an MSE *)
(* of 0 and a scale of 3 or 4; it returns scale 4 and offset (0, 0) when   *)
(* no candidate evaluated before that one (scale 3, or scale 4 with a      *)
(* negative offset_y, or scale 4 with offset_y 0 and a negative offset_x)  *)
(* has an MSE of 0, and otherwise the first candidate that has.            *)
C16_RecoversFirstExact ==
    (pc = "search_done" /\ EnlargedBy4(sr_image) /\ sr_max_scale >= 4) =>
        /\ sr_best.mse.num = 0 /\ sr_best.mse.den > 0
        /\ sr_best.scale \in {FirstScale, 4}
        /\ (\A i \in 1..Len(sr_seen) : BeforeScale4(sr_seen[i]) => sr_seen[i].mse.num # 0)
              => sr_best.scale = 4 /\ sr_best.offset = <<0, 0>>
        /\ \A i \in 1..Len(sr_seen) :
              (sr_seen[i].mse.num = 0 /\ \A j \in 1..(i - 1) : sr_seen[j].mse.num # 0)
                  => IsReturned(i)

\* scale 4 and offset (0, 0) are returned after candidates of scale 3 and of
\* scale 4 with negative offsets were evaluated
C16_Witness ==
    /\ pc = "search_done"
    /\ EnlargedBy4(sr_image)
    /\ sr_max_offset = DefaultMaxOffset
    /\ sr_best.scale = 4
    /\ sr_best.offset = <<0, 0>>
    /\ sr_best.mse.num = 0
    /\ \E i \in 1..Len(sr_seen) : sr_seen[i].scale = FirstScale
    /\ \E i \in 1..Len(sr_seen) : sr_seen[i].scale = 4 /\ sr_seen[i].offset[1] < 0

\* the smallest of max_scale, width and height
LargestScale == Min(sr_max_scale, Min(ImgWidth(sr_image), ImgHeight(sr_image)))

OffsetsInWindow ==
    /\ sr_best.offset[1] >= 0 - sr_max_offset /\ sr_best.offset[1] <= sr_max_offset
    /\ sr_best.offset[2] >= 0 - sr_max_offset /\ sr_best.offset[2] <= sr_max_offset

SeenBox(i) ==
    RegionBox(ImgWidth(sr_image), ImgHeight(sr_image),
              sr_seen[i].scale, sr_seen[i].offset[1], sr_seen[i].offset[2])

(* C25: for every candidate (k, offset_x, offset_y) that                   *)
(* estimate_scale_factor_with_offset evaluates, the crop box is a          *)
(* sub-region of the image (0 <= left < right <= width and                 *)
(* 0 <= top < bottom <= height) that starts at the offset, has a width and *)
(* a height that are positive exact multiples of k, and is the largest     *)
(* such box (right + k > width and bottom + k > height).                   *)
C25_BoxInsideImage ==
    \A i \in 1..Len(sr_seen) :
        LET box == SeenBox(i)
            k == sr_seen[i].scale
        IN  /\ 0 <= box[1] /\ box[1] < box[3] /\ box[3] <= ImgWidth(sr_image)
            /\ 0 <= box[2] /\ box[2] < box[4] /\ box[4] <= ImgHeight(sr_image)
            /\ box[1] = sr_seen[i].offset[1]
            /\ box[2] = sr_seen[i].offset[2]
            /\ (box[3] - box[1]) % k = 0
            /\ (box[4] - box[2]) % k = 0
            /\ box[3] + k > ImgWidth(sr_image)
            /\ box[4] + k > ImgHeight(sr_image)

----------------------------------------------------------------------------
(* downsample on its own *)

Black == <<0, 0, 0>>
White == <<255, 255, 255>>
Colors == {Black, White}

\* strictly increasing line lists inside 0..n with at least two lines, and the
\* lists of one line twice
IncreasingLines(n) ==
    {s \in SeqsUpTo(0..n, 2, n + 1) : StrictlyIncreasing(s)}
DoubledLines(n) == {<<c, c>> : c \in 0..n}

ValidMesh(m, a) ==
    /\ Len(m[1]) >= 2 /\ Len(m[2]) >= 2
    /\ StrictlyIncreasing(m[1]) /\ StrictlyIncreasing(m[2])
    /\ \A i \in 1..Len(m[1]) : m[1][i] >= 0 /\ m[1][i] <= Len(a[1])
    /\ \A j \in 1..Len(m[2]) : m[2][j] >= 0 /\ m[2][j] <= Len(a)

InitDown ==
    /\ pc = "down_start"
    /\ rgb \in [1..ImgH -> [1..ImgW -> Colors]]
    /\ mesh \in (IncreasingLines(ImgW) \cup DoubledLines(ImgW))
                    \X (IncreasingLines(ImgH) \cup DoubledLines(ImgH))
    /\ result = NoImage
    /\ IdleCluster
    /\ IdleHomog
    /\ IdleMesh
    /\ IdleWidth
    /\ IdleMse
    /\ IdleSearch
    /\ IdleGen
    /\ IdleHeap
    /\ IdleAlpha

\* result = colors.downsample(image, mesh)
Downsample ==
    /\ pc = "down_start"
    /\ result' = downsample(rgb, mesh[1], mesh[2])
    /\ pc' = IF result'.ok THEN "down_done" ELSE "down_raised"
    /\ UNCHANGED <<genVars, heapVars, alphaVars, rgb, mesh, clusterVars, homogVars, meshVars,
                   widthVars, finderVars>>

NextDown == Downsample

SpecDown == InitDown /\ [][NextDown]_vars

\* the pixels of the source block of cell (i, j), i and j counted from 1
Block(i, j) ==
    {<<x, y>> \in (0..(ImgW - 1)) \X (0..(ImgH - 1)) :
        /\ mesh[1][i] <= x /\ x < mesh[1][i + 1]
        /\ mesh[2][j] <= y /\ y < mesh[2][j + 1]}

Occurrences(i, j, c) == Cardinality({p \in Block(i, j) : rgb[p[2] + 1][p[1] + 1] = c})

CellIndices == (1..(Len(mesh[1]) - 1)) \X (1..(Len(mesh[2]) - 1))

(* C1: for a mesh whose lines are strictly increasing and inside the       *)
(* image, each output pixel (i, j) of downsample is a colour that occurs   *)
(* in the source block of cell (i, j), and no colour occurs more often in  *)
(* that block.                                                             *)
C1_PixelIsModeOfBlock ==
    (pc \in {"down_done", "down_raised"} /\ ValidMesh(mesh, rgb)) =>
        /\ pc = "down_done"
        /\ \A q \in CellIndices :
              LET c == result.px[<<q[1] - 1, q[2] - 1>>]
              IN  /\ Occurrences(q[1], q[2], c) >= 1
                  /\ \A d \in Colors : Occurrences(q[1], q[2], d) <= Occurrences(q[1], q[2], c)

\* a block of two colours with a strict majority that is not its first pixel
C1_Witness ==
    /\ pc = "down_done"
    /\ ValidMesh(mesh, rgb)
    /\ \E q \in CellIndices :
          /\ Occurrences(q[1], q[2], Black) >= 1
          /\ Occurrences(q[1], q[2], White) > Occurrences(q[1], q[2], Black)
          /\ rgb[mesh[2][q[2]] + 1][mesh[1][q[1]] + 1] = Black
          /\ result.px[<<q[1] - 1, q[2] - 1>>] = White

\* every cell of the mesh is filled with one colour
CellsSolid ==
    \A q \in CellIndices :
        \E c \in Colors : Occurrences(q[1], q[2], c) = Cardinality(Block(q[1], q[2]))
                          /\ Block(q[1], q[2]) # {}

(* C2: for a source image in which every mesh cell is filled with one      *)
(* solid colour, downsample returns exactly that colour for every cell.    *)
C2_SolidCellsReproduced ==
    (pc \in {"down_done", "down_raised"} /\ ValidMesh(mesh, rgb) /\ CellsSolid) =>
        /\ pc = "down_done"
        /\ \A q \in CellIndices :
              Occurrences(q[1], q[2], result.px[<<q[1] - 1, q[2] - 1>>])
                  = Cardinality(Block(q[1], q[2]))

\* solid cells of both colours, one of them larger than a pixel
C2_Witness ==
    /\ pc = "down_done"
    /\ ValidMesh(mesh, rgb)
    /\ CellsSolid
    /\ \E q \in CellIndices : Cardinality(Block(q[1], q[2])) >= 2
    /\ \E p, q \in DOMAIN result.px : result.px[p] = Black /\ result.px[q] = White

----------------------------------------------------------------------------
(* generate.py: generate_pixel_art from line 31 on.  The image is given by *)
(* its size; the segments the line detector reports inside compute_mesh    *)
(* are an input of every call of compute_mesh.                             *)

MaxSide == 8            \* largest width and height of img
UpsampleFactor == 2     \* utils.scale_img(img, 2)

\* the smallest side that leaves a pixel after compute_mesh's border crop
MinSide == 2 * CropBorder + 1

\* utils.scale_img(img, scale): the size of a side of n pixels
ScaledSize(n, scale) == n * scale

\* the lists of segments the detector may report on a w x h edge map
SegmentLists(w, h) == SeqsUpTo(Segments(w, h), 0, MaxSegments)

NoMesh == [ok |-> FALSE, x |-> <<>>, y |-> <<>>]

\* mesh.compute_mesh on an image of w x h pixels whose detector reports segs:
\* crop, detect_grid_lines, get_pixel_width, homogenize_lines twice
compute_mesh(w, h, segs) ==
    LET found == detect_grid_lines(CroppedSize(w), CroppedSize(h), segs)
        finish(r) ==
            LET mx == homogenize_lines(found[1], r.w)
                my == homogenize_lines(found[2], r.w)
            IN  IF r.ok /\ mx.ok /\ my.ok
                THEN [ok |-> TRUE, x |-> mx.lines, y |-> my.lines]
                ELSE NoMesh
    IN  {finish(r) : r \in WidthOutcomes(found[1], found[2])}

\* every outcome of compute_mesh on an image of w x h pixels
MeshOutcomes(w, h) ==
    UNION {compute_mesh(w, h, segs) :
              segs \in SegmentLists(CroppedSize(w), CroppedSize(h))}

\* colors.palette_img of an image of w x h pixels, here of one colour
Paletted(w, h) == [j \in 1..h |-> [i \in 1..w |-> Black]]

\* len(img_mesh[0]) != 2 and len(img_mesh[1]) != 2: no axis is tested alone
NoMeshFoundOnBoth(m) == Len(m[1]) = 2 /\ Len(m[2]) = 2

\* len(img_mesh[0]) == 2 or len(img_mesh[1]) == 2 (line 35)
NoMeshFound(m) == Len(m[1]) = 2 \/ Len(m[2]) = 2

\* colors.downsample(paletted_img, img_mesh); with a single line on an axis
\* the output array has no pixel and Image.fromarray raises or returns an
\* empty image, by Pillow version
DownsampleOutcomes(a, m) ==
    IF Len(m[1]) < 2 \/ Len(m[2]) < 2
    THEN {NoImage, [ok |-> TRUE, width |-> Len(m[1]) - 1, height |-> Len(m[2]) - 1,
                    px |-> <<>>]}
    ELSE {downsample(a, m[1], m[2])}

InitGen ==
    /\ pc = "gen_start"
    /\ gen_width \in MinSide..MaxSide
    /\ gen_height \in MinSide..MaxSide
    /\ gen_first = <<>>
    /\ gen_mesh_of = "none"
    /\ gen_palette_of = "none"
    /\ gen_mesh_calls = 0
    /\ gen_down_calls = 0
    /\ IdleHeap
    /\ IdleAlpha
    /\ IdleCluster
    /\ IdleHomog
    /\ IdleMesh
    /\ IdleDown
    /\ IdleWidth
    /\ IdleMse
    /\ IdleSearch

\* upsampled_img = utils.scale_img(img, 2); img_mesh = compute_mesh(upsampled_img)
MeshOfUpsampled ==
    /\ pc = "gen_start"
    /\ gen_mesh_calls' = gen_mesh_calls + 1
    /\ \E m \in MeshOutcomes(ScaledSize(gen_width, UpsampleFactor),
                              ScaledSize(gen_height, UpsampleFactor)) :
          IF m.ok
          THEN /\ mesh' = <<m.x, m.y>>
               /\ gen_first' = <<m.x, m.y>>
               /\ gen_mesh_of' = "upsampled"
               /\ pc' = "gen_meshed"
          ELSE /\ pc' = "gen_raised"
               /\ UNCHANGED <<mesh, gen_first, gen_mesh_of>>
    /\ UNCHANGED <<gen_width, gen_height, gen_palette_of, gen_down_calls, rgb, result,
                   clusterVars, homogVars, meshVars, widthVars, finderVars,
                   heapVars, alphaVars>>

\* no mesh found: img_mesh = compute_mesh(img); paletted_img = palette_img(img)
MeshOfOriginal ==
    /\ pc = "gen_meshed"
    /\ NoMeshFound(mesh)
    /\ gen_mesh_calls' = gen_mesh_calls + 1
    /\ \E m \in MeshOutcomes(gen_width, gen_height) :
          IF m.ok
          THEN /\ mesh' = <<m.x, m.y>>
               /\ gen_mesh_of' = "original"
               /\ rgb' = Paletted(gen_width, gen_height)
               /\ gen_palette_of' = "original"
               /\ pc' = "gen_paletted"
          ELSE /\ pc' = "gen_raised"
               /\ UNCHANGED <<mesh, gen_mesh_of, rgb, gen_palette_of>>
    /\ UNCHANGED <<gen_width, gen_height, gen_first, gen_down_calls, result,
                   clusterVars, homogVars, meshVars, widthVars, finderVars,
                   heapVars, alphaVars>>

\* else: paletted_img = palette_img(upsampled_img)
PaletteOfUpsampled ==
    /\ pc = "gen_meshed"
    /\ ~NoMeshFound(mesh)
    /\ rgb' = Paletted(ScaledSize(gen_width, UpsampleFactor),
                       ScaledSize(gen_height, UpsampleFactor))
    /\ gen_palette_of' = "upsampled"
    /\ pc' = "gen_paletted"
    /\ UNCHANGED <<gen_width, gen_height, gen_first, gen_mesh_of, gen_mesh_calls,
                   gen_down_calls, mesh, result,
                   clusterVars, homogVars, meshVars, widthVars, finderVars,
                   heapVars, alphaVars>>

\* result = colors.downsample(paletted_img, img_mesh), scaled and saved
DownsampleMesh ==
    /\ pc = "gen_paletted"
    /\ gen_down_calls' = gen_down_calls + 1
    /\ result' \in DownsampleOutcomes(rgb, mesh)
    /\ pc' = IF result'.ok THEN "gen_done" ELSE "gen_raised"
    /\ UNCHANGED <<gen_width, gen_height, gen_first, gen_mesh_of, gen_palette_of,
                   gen_mesh_calls, rgb, mesh,
                   clusterVars, homogVars, meshVars, widthVars, finderVars,
                   heapVars, alphaVars>>

NextGen == MeshOfUpsampled \/ MeshOfOriginal \/ PaletteOfUpsampled \/ DownsampleMesh

SpecGen == InitGen /\ [][NextGen]_vars

\* the mesh of the upsampled image has exactly 2 lines on at least one axis
FirstHasTwoLines == Len(gen_first[1]) = 2 \/ Len(gen_first[2]) = 2

(* C24: in generate_pixel_art the mesh and the paletted image passed to    *)
(* downsample come from the same image: when the mesh of the 2x-upsampled  *)
(* image has exactly 2 lines on at least one axis, the mesh is recomputed  *)
(* once from the original image and the palette is taken from the original *)
(* image; otherwise both come from the upsampled image.  compute_mesh runs *)
(* at most twice, and downsample exactly once in a call that returns and   *)
(* never more than once.                                                   *)
C24_SameImage ==
    /\ gen_mesh_calls <= 2
    /\ gen_down_calls <= 1
    /\ pc = "gen_done" => gen_down_calls = 1
    /\ gen_down_calls = 1 =>
          /\ gen_mesh_of = gen_palette_of
          /\ IF FirstHasTwoLines
             THEN gen_mesh_of = "original" /\ gen_mesh_calls = 2
             ELSE gen_mesh_of = "upsampled" /\ gen_mesh_calls = 1

\* a call that returns after the mesh was recomputed from the original image,
\* the first mesh having two lines on one axis only
C24_Witness ==
    /\ pc = "gen_done"
    /\ gen_down_calls = 1
    /\ gen_mesh_calls = 2
    /\ (Len(gen_first[1]) = 2) # (Len(gen_first[2]) = 2)
    /\ gen_mesh_of = "original"
    /\ gen_palette_of = "original"

----------------------------------------------------------------------------
(* mesh.py: the calls of cluster_lines, get_pixel_width and                *)
(* homogenize_lines that compute_mesh makes, with Python's lists as        *)
(* objects.  hp_heap[i] is the content of the list object with identity i; *)
(* a name holds an identity, an assignment through a name changes the      *)
(* object for every holder, and only a copy gets a new identity.           *)

\* the result of an operation on the heap: the heap after it and the
\* identity (or value) it yields
OnHeap(heap, ref) == [ok |-> TRUE, heap |-> heap, ref |-> ref]
RaisedOnHeap(heap) == [ok |-> FALSE, heap |-> heap, ref |-> 0]

\* a new object with content v
Allocate(heap, v) == OnHeap(Append(heap, v), Len(heap) + 1)

\* lines.sort() for sorted(lines): the argument itself is put in order
SortInPlace(heap, ref) == OnHeap([heap EXCEPT ![ref] = Sorted(heap[ref])], ref)

\* lines = sorted(lines) (line 20): a new list, the name is bound to it
SortedCopy(heap, ref) == Allocate(heap, Sorted(heap[ref]))

\* cluster_lines(lines) with the default threshold
ClusterOnHeap(heap, ref) ==
    IF heap[ref] = <<>> THEN Allocate(heap, <<>>)
    ELSE LET s == SortedCopy(heap, ref)
             lines == s.heap[s.ref]
             clusters == GroupFrom(lines, 2, << <<lines[1]>> >>, ClusterThreshold)
         IN  Allocate(s.heap, [k \in 1..Len(clusters) |-> ClusterMedian(clusters[k])])

\* get_pixel_width(lines_x, lines_y): np.diff and np.concatenate make new
\* arrays (lines 87-89), nothing is assigned through lines_x or lines_y
WidthOnHeap(heap, ref_x, ref_y) ==
    LET dx == Allocate(heap, Diff(heap[ref_x]))
        dy == Allocate(dx.heap, Diff(dx.heap[ref_y]))
        gaps == Allocate(dy.heap, dy.heap[dx.ref] \o dy.heap[dy.ref])
    IN  {[ok |-> r.ok, heap |-> gaps.heap, w |-> r.w] :
            r \in WidthOutcomes(gaps.heap[ref_x], gaps.heap[ref_y])}

\* complete_lines = lines[:-1] (line 107): a slice is a new list
SliceCopy(heap, ref) == Allocate(heap, SubSeq(heap[ref], 1, Len(heap[ref]) - 1))

\* homogenize_lines(lines, pixel_width): the sections are assigned into the
\* slice (line 119), the flattened list is a third object (line 121) and
\* lines[-1] is read from the argument at the end (line 123)
HomogenizeOnHeap(heap, ref, w) ==
    LET c == SliceCopy(heap, ref)
        lines == c.heap[ref]
        widths == Diff(lines)
        filled == [c.heap EXCEPT ![c.ref] =
                      [i \in 1..Len(widths) |->
                          SectionLines(lines[i], widths[i], NumPixels(widths[i], w))]]
    IN  IF lines = <<>> THEN RaisedOnHeap(c.heap)
        ELSE IF Len(lines) > 1 /\ (IsNan(w) \/ w.num = 0) THEN RaisedOnHeap(c.heap)
        ELSE Allocate(filled, Append(Flatten(filled[c.ref]), Last(filled[ref])))

\* coordinates far enough apart for cluster_lines to keep them apart
SpreadCoords == {(ClusterThreshold + 1) * c : c \in 0..MaxCoord}

\* the raw lists a caller may hold: any list on one axis, the two border
\* seeds on the other
RawLists ==
    SeqsUpTo(SpreadCoords, 1, MaxLen) \X {<<0, c>> : c \in SpreadCoords}

InitHeap ==
    /\ pc = "heap_start"
    /\ \E raw \in RawLists :
          /\ hp_heap = <<raw[1], raw[2]>>
          /\ hp_before = [raw |-> raw, lines |-> <<>>]
    /\ hp_raw = <<1, 2>>
    /\ hp_lines = <<>>
    /\ hp_width = NoWidth
    /\ hp_mesh = <<>>
    /\ IdleAlpha
    /\ IdleGen
    /\ IdleCluster
    /\ IdleHomog
    /\ IdleMesh
    /\ IdleDown
    /\ IdleWidth
    /\ IdleMse
    /\ IdleSearch

\* clustered_lines_x = cluster_lines(lines_x), then lines_y (lines 69-70)
ClusterOnHeapCall ==
    /\ pc = "heap_start"
    /\ LET cx == ClusterOnHeap(hp_heap, hp_raw[1])
           cy == ClusterOnHeap(cx.heap, hp_raw[2])
       IN  /\ hp_heap' = cy.heap
           /\ hp_lines' = <<cx.ref, cy.ref>>
           /\ hp_before' = [hp_before EXCEPT !.lines = <<cy.heap[cx.ref], cy.heap[cy.ref]>>]
    /\ pc' = "heap_clustered"
    /\ UNCHANGED <<hp_raw, hp_width, hp_mesh, alphaVars, genVars, clusterVars,
                   homogVars, meshVars, downVars, widthVars, finderVars>>

\* pixel_width = get_pixel_width(lines_x, lines_y) (line 160)
WidthOnHeapCall ==
    /\ pc = "heap_clustered"
    /\ \E r \in WidthOnHeap(hp_heap, hp_lines[1], hp_lines[2]) :
          /\ hp_heap' = r.heap
          /\ hp_width' = r.w
          /\ pc' = IF r.ok THEN "heap_measured" ELSE "heap_raised"
    /\ UNCHANGED <<hp_raw, hp_lines, hp_mesh, hp_before, alphaVars, genVars,
                   clusterVars, homogVars, meshVars, downVars, widthVars, finderVars>>

\* mesh_x = homogenize_lines(lines_x, pixel_width) (line 163)
HomogenizeXOnHeap ==
    /\ pc = "heap_measured"
    /\ LET r == HomogenizeOnHeap(hp_heap, hp_lines[1], hp_width)
       IN  /\ hp_heap' = r.heap
           /\ hp_mesh' = IF r.ok THEN <<r.ref>> ELSE hp_mesh
           /\ pc' = IF r.ok THEN "heap_first" ELSE "heap_raised"
    /\ UNCHANGED <<hp_raw, hp_lines, hp_width, hp_before, alphaVars, genVars,
                   clusterVars, homogVars, meshVars, downVars, widthVars, finderVars>>

\* mesh_y = homogenize_lines(lines_y, pixel_width) (line 164)
HomogenizeYOnHeap ==
    /\ pc = "heap_first"
    /\ LET r == HomogenizeOnHeap(hp_heap, hp_lines[2], hp_width)
       IN  /\ hp_heap' = r.heap
           /\ hp_mesh' = IF r.ok THEN Append(hp_mesh, r.ref) ELSE hp_mesh
           /\ pc' = IF r.ok THEN "heap_done" ELSE "heap_raised"
    /\ UNCHANGED <<hp_raw, hp_lines, hp_width, hp_before, alphaVars, genVars,
                   clusterVars, homogVars, meshVars, downVars, widthVars, finderVars>>

NextHeap == ClusterOnHeapCall \/ WidthOnHeapCall \/ HomogenizeXOnHeap \/ HomogenizeYOnHeap

SpecHeap == InitHeap /\ [][NextHeap]_vars

\* the lists with the identities refs have the contents they had
SameAsBefore(refs, contents) ==
    \A i \in 1..Len(refs) : hp_heap[refs[i]] = contents[i]

(* C26: cluster_lines, get_pixel_width and homogenize_lines never modify   *)
(* the line lists passed to them: after any call the caller's list has the *)
(* same elements in the same order, so the clustered lines held by         *)
(* compute_mesh are the same before and after both homogenize_lines calls. *)
C26_ListsNotModified ==
    /\ SameAsBefore(hp_raw, hp_before.raw)
    /\ SameAsBefore(hp_lines, hp_before.lines)

\* both homogenize_lines calls returned, after a raw list that was not in
\* order was clustered and a gap was subdivided
C26_Witness ==
    /\ pc = "heap_done"
    /\ hp_before.raw[1] # Sorted(hp_before.raw[1])
    /\ Len(hp_heap[hp_mesh[2]]) > Len(hp_heap[hp_lines[2]])
    /\ hp_heap[hp_mesh[1]] # hp_heap[hp_lines[1]]
    /\ SameAsBefore(hp_lines, hp_before.lines)

----------------------------------------------------------------------------
(* colors.py: downsample with transparent_background, on a mesh of cells   *)
(* of one pixel, so that the result has the size of the image              *)

AlphaW == 3     \* largest width of the result
AlphaH == 3     \* largest height of the result

\* fill_color (line 43)
FillColor == <<0, 0, 0, 0>>

\* image.convert("RGBA") of an RGB image: every pixel fully opaque
ConvertRGBA(image) ==
    [image EXCEPT !.px = [p \in DOMAIN image.px |-> image.px[p] \o <<255>>]]

\* the pixels beside (x, y), the diagonal ones as well
AdjacentOrDiagonal(p, image) ==
    {q \in DOMAIN image.px : Abs(q[1] - p[1]) <= 1 /\ Abs(q[2] - p[2]) <= 1} \ {p}

\* ImageDraw.floodfill: (x+1, y), (x-1, y), (x, y+1), (x, y-1) inside the image
Adjacent(p, image) ==
    {<<p[1] + 1, p[2]>>, <<p[1] - 1, p[2]>>, <<p[1], p[2] + 1>>, <<p[1], p[2] - 1>>}
        \cap DOMAIN image.px

\* the loop of ImageDraw.floodfill with thresh = 0: the pixels beside the
\* edge that have the background colour are filled and become the next edge
RECURSIVE FillFrom(_, _, _, _)
FillFrom(image, edge, full_edge, background) ==
    IF edge = {} THEN image
    ELSE LET seen == (UNION {Adjacent(p, image) : p \in edge}) \ full_edge
             new_edge == {q \in seen : image.px[q] = background}
         IN  FillFrom([image EXCEPT !.px = [q \in DOMAIN image.px |->
                                              IF q \in new_edge THEN FillColor
                                              ELSE image.px[q]]],
                      new_edge, edge, background)

\* ImageDraw.floodfill(im, xy, fill_color, thresh=0)
floodfill(image, xy) ==
    IF image.px[xy] = FillColor THEN image
    ELSE FillFrom([image EXCEPT !.px[xy] = FillColor], {xy}, {}, image.px[xy])

\* the four corners in the order of line 41
Corners(image) ==
    << <<0, 0>>, <<image.width - 1, 0>>, <<0, image.height - 1>>,
       <<image.width - 1, image.height - 1>> >>

RECURSIVE FillCorners(_, _)
FillCorners(image, k) ==
    IF k > Len(Corners(image)) THEN image
    ELSE FillCorners(floodfill(image, Corners(image)[k]), k + 1)

make_background_transparent(image) == FillCorners(ConvertRGBA(image), 1)

\* downsample(image, mesh, transparent_background)
DownsampleWith(a, lx, ly, transparent) ==
    LET res == downsample(a, lx, ly)
    IN  IF res.ok /\ transparent THEN make_background_transparent(res) ELSE res

\* the lines 0, 1, ..., n
UnitLines(n) == [i \in 1..(n + 1) |-> i - 1]

InitAlpha ==
    /\ pc = "alpha_start"
    /\ \E w \in 1..AlphaW, h \in 1..AlphaH :
          /\ rgb \in [1..h -> [1..w -> Colors]]
          /\ mesh = <<UnitLines(w), UnitLines(h)>>
    /\ result = NoImage
    /\ transparent_background \in BOOLEAN
    /\ IdleHeap
    /\ IdleGen
    /\ IdleCluster
    /\ IdleHomog
    /\ IdleMesh
    /\ IdleWidth
    /\ IdleMse
    /\ IdleSearch

\* result = colors.downsample(image, mesh, transparent_background)
DownsampleAlpha ==
    /\ pc = "alpha_start"
    /\ result' = DownsampleWith(rgb, mesh[1], mesh[2], transparent_background)
    /\ pc' = IF result'.ok THEN "alpha_done" ELSE "alpha_raised"
    /\ UNCHANGED <<rgb, mesh, alphaVars, heapVars, genVars, clusterVars, homogVars,
                   meshVars, widthVars, finderVars>>

NextAlpha == DownsampleAlpha

SpecAlpha == InitAlpha /\ [][NextAlpha]_vars

\* the mode colour of the cell of pixel p of the result: its one pixel
ModeColour(p) == rgb[p[2] + 1][p[1] + 1]

\* the pixels joined to S by paths of edge-adjacent pixels of colour c
RECURSIVE JoinedTo(_, _)
JoinedTo(S, c) ==
    LET more == {q \in DOMAIN result.px :
                    /\ ModeColour(q) = c
                    /\ \E p \in S : Abs(p[1] - q[1]) + Abs(p[2] - q[2]) = 1}
    IN  IF more \subseteq S THEN S ELSE JoinedTo(S \cup more, c)

CornerPixels ==
    {0, result.width - 1} \X {0, result.height - 1}

\* the pixels joined to a corner by a path of pixels of that corner's colour
JoinedToCorners ==
    UNION {JoinedTo({c}, ModeColour(c)) : c \in CornerPixels}

(* C27: with transparent_background set, a pixel of downsample's result    *)
(* has alpha 0 if and only if it is joined to one of the four corner       *)
(* pixels by a path of edge-adjacent pixels that all have exactly that     *)
(* corner's colour; all four corners end with alpha 0, and every other     *)
(* pixel keeps its mode colour and stays fully opaque.  Without the flag   *)
(* no pixel is made transparent.                                           *)
C27_CornersFloodFilled ==
    pc = "alpha_done" =>
        IF transparent_background
        THEN LET joined == JoinedToCorners
             IN  /\ \A p \in DOMAIN result.px :
                        /\ result.px[p][4] = 0 <=> p \in joined
                        /\ p \notin joined => result.px[p] = ModeColour(p) \o <<255>>
                 /\ \A c \in CornerPixels : result.px[c][4] = 0
        ELSE \A p \in DOMAIN result.px : result.px[p] = ModeColour(p)

\* a result with a pixel of a corner's colour that touches the filled region
\* only diagonally and stays opaque, and corners of two colours
C27_Witness ==
    /\ pc = "alpha_done"
    /\ transparent_background
    /\ \E c, d \in CornerPixels : ModeColour(c) # ModeColour(d)
    /\ \E p \in DOMAIN result.px :
          /\ result.px[p][4] = 255
          /\ \E q \in DOMAIN result.px :
                /\ Abs(p[1] - q[1]) = 1 /\ Abs(p[2] - q[2]) = 1
                /\ result.px[q][4] = 0
                /\ ModeColour(q) = ModeColour(p)

====
